---- MODULE Spec2Model ----
(***************************************************************************)
(* Model of the policy discovery engine (src/src/policy_discovery.py) and  *)
(* of the field enrichment engine (src/src/enrichment.py).                 *)
(*                                                                         *)
(* Strings are sequences of one-character strings, so that str.lower,      *)
(* str.replace, startswith, the `in` substring test and urlparse are       *)
(* computed character by character.  Confidences are IEEE-754 doubles,     *)
(* represented exactly (see F below), so that the comparisons of the code  *)
(* (a strict > in the merge, a >= against the acceptance threshold) see    *)
(* the same rounding errors as the Python floats.                          *)
(***************************************************************************)
EXTENDS Integers, Sequences, FiniteSets, TLC

VARIABLES
    \* ---- PolicyDiscovery.discover and its retry wrapper
    pc,           \* control position of the discover call
    domain,       \* the constructor argument
    base_url,     \* self.base_url
    methods,      \* settings.discovery_methods_list
    idx,          \* position of the for loop over methods (1-based)
    override,     \* the local `override` of discover (EmptyMap for None)
    discovered,   \* the dict `discovered` of discover
    policies,     \* the dict `policies` of the running strategy
    todo,         \* sitemap: sitemap_urls still to fetch; heuristic: paths still to probe
    kids,         \* sitemap: child sitemaps of the current index still to fetch
    allowance,    \* sitemap: 1 + the sitemap urls of the list + the children the fetched
                  \* indexes listed - the session.get calls made so far
    nested,       \* sitemap: the <loc> entries of the children of the current index that
                  \* are indexes themselves
    attempt,      \* retry wrapper: number of failed attempts
    invocations,  \* retry wrapper: number of times the body of discover was entered
    outcome,      \* "none", "returned" or "raised": how the wrapped call ended
    \* history of the discover call
    executed,     \* the strategies entered so far, in order
    raisedIn,     \* the loop positions whose strategy raised
    seenMax,      \* doc_type -> highest confidence of a candidate a strategy built
    retMax,       \* doc_type -> highest confidence of a candidate a strategy returned
    tied,         \* doc types for which a merge met a different candidate of equal confidence
    \* ---- FieldEnricher.enrich_email / enrich_country / enrich_delete_link
    epc,          \* control position of the enrich_X call
    field,        \* "email", "country" or "delete_link"
    current,      \* the current_X argument (None or a string)
    use_llm,      \* the use_llm_fallback argument
    flag,         \* settings.enable_llm_fallback: "absent", "enabled" or "disabled"
    results,      \* the list returned by extract_X
    llm,          \* what the oracle did in this call
    result,       \* the value returned by enrich_X (None or an ExtractionResult)
    eraised,      \* TRUE when enrich_X ended by an exception
    patternCalls, \* number of extract_X invocations in this call
    llmCalls,     \* number of oracle invocations in this call
    \* ---- FieldEnricher.enrich_company and PolicyProcessingPipeline._update_company_enrichment
    cpc,          \* control position of the enrich_company call and of the update after it
    company,      \* the Company row: its email, country and delete_link columns
    company_data, \* the company_data argument: a dict, key -> None or a string
    switches,     \* settings.extract_emails, extract_country and extract_delete_link
    enriched,     \* the dict `enriched`, without its metadata
    metadata,     \* extraction_metadata['fields']: field -> entry
    attached,     \* TRUE once enriched['_extraction_metadata'] is set
    failure,      \* "none", "_extraction_error" (the outer except ran) or "raised"
    attempted,    \* the fields whose enrich_X was called, in order
    \* ---- the extractors and scoring functions, one application
    xpc,          \* "start" or "done"
    xinput,       \* what the function is applied to
    xfound,       \* the results in the order they were appended (before the sort)
    xout,         \* the list the function returned
    \* ---- utils.retry: one call of a wrapped operation
    rpc,          \* control position in retry.wrapper
    max_attempts, \* the decorator arguments
    delay,
    backoff,
    call,         \* the locals of wrapper: attempt and current_delay
    invoked,      \* number of times func was invoked
    slept,        \* the arguments of time.sleep, in order
    ended,        \* how the call ended: "none", "returned" or "raised", and by which invocation
    \* ---- PolicyProcessingPipeline._process_company: the policy tasks on the event loop
    tasks,        \* task -> its position in _process_policy and the locals of its retry wrapper
    running,      \* the task that holds the thread of the event loop, 0 when the loop is free
    gathered,     \* what awaiting asyncio.gather gave: "pending", "returned" or "raised"
    \* ---- PolicyProcessingPipeline.process_companies: one run over a CSV file
    bpc,          \* control position in process_all and _process_company
    rows,         \* what _load_companies_from_csv returned: the domains of the rows
    domains,      \* the domains argument
    companies,    \* the list the loop goes over
    position,     \* the place in companies of the company of the current turn
    entered,      \* the companies _process_company was called for, in order
    exc,          \* the exception on its way out of _process_company, after the ones
                  \* it was raised while handling (its __context__); <<>> without one
    caught,       \* what the except clause of the loop caught, one entry per company
    tracker,      \* tracker.current
    \* ---- the policy tasks of one company that enrich and update its row
    shared,       \* the Company object the tasks share: its columns
    writers,      \* task -> its position, the dict it gave enrich_company, what
                  \* enrich_company returned, and what session.commit() did
    writes        \* column -> the updates that changed it: task, old and new value

config == <<domain, base_url, methods>>
retryv == <<attempt, invocations, outcome>>
smvars == <<allowance, nested>>
dvars == <<pc, config, idx, override, discovered, policies, todo, kids, smvars, retryv,
           executed, raisedIn, seenMax, retMax, tied>>
evars == <<epc, field, current, use_llm, flag, results, llm, result, eraised,
           patternCalls, llmCalls>>
cvars == <<cpc, company, company_data, switches, enriched, metadata, attached, failure,
           attempted>>
xvars == <<xpc, xinput, xfound, xout>>
rvars == <<rpc, max_attempts, delay, backoff, call, invoked, slept, ended>>
bvars == <<bpc, rows, domains, companies, position, entered, exc, caught, tracker>>
wvars == <<shared, writers, writes>>
pvars == <<tasks, running, gathered, bvars, wvars>>
vars == <<dvars, evars, cvars, xvars, rvars, pvars>>

None == "None"

-----------------------------------------------------------------------------
(* Strings                                                                 *)

UpperChars == <<"A","B","C","D","E","F","G","H","I","J","K","L","M",
                "N","O","P","Q","R","S","T","U","V","W","X","Y","Z">>
LowerChars == <<"a","b","c","d","e","f","g","h","i","j","k","l","m",
                "n","o","p","q","r","s","t","u","v","w","x","y","z">>
Digits == {"0","1","2","3","4","5","6","7","8","9"}
Whitespace == {" ", "\n", "\t"}

Range(s) == {s[i] : i \in DOMAIN s}

LowerChar(c) ==
    IF \E i \in DOMAIN UpperChars : UpperChars[i] = c
    THEN LowerChars[CHOOSE i \in DOMAIN UpperChars : UpperChars[i] = c]
    ELSE c

UpperChar(c) ==
    IF \E i \in DOMAIN LowerChars : LowerChars[i] = c
    THEN UpperChars[CHOOSE i \in DOMAIN LowerChars : LowerChars[i] = c]
    ELSE c

\* str.lower(), str.upper()
Lower(s) == [i \in DOMAIN s |-> LowerChar(s[i])]
Upper(s) == [i \in DOMAIN s |-> UpperChar(s[i])]

IsAlpha(c) == c \in Range(UpperChars) \cup Range(LowerChars)
IsAlnum(c) == IsAlpha(c) \/ c \in Digits

\* s[i:] and s[:i] with 1-based i
From(s, i) == SubSeq(s, i, Len(s))
Upto(s, i) == SubSeq(s, 1, i)

\* k occurs in s at position i
OccursAt(s, k, i) ==
    /\ i >= 1
    /\ i + Len(k) - 1 <= Len(s)
    /\ \A j \in 1..Len(k) : s[i + j - 1] = k[j]

\* s.startswith(p), s.endswith(p), k in s
StartsWith(s, p) == OccursAt(s, p, 1)
EndsWith(s, p) == OccursAt(s, p, Len(s) - Len(p) + 1)
Contains(s, k) == \E i \in 1..(Len(s) + 1) : OccursAt(s, k, i)
ContainsAny(s, ks) == \E k \in ks : Contains(s, k)

\* s.find(k) + 1: the first position of k in s, 0 when there is none
Find(s, k) ==
    IF Contains(s, k)
    THEN CHOOSE i \in 1..(Len(s) + 1) :
            OccursAt(s, k, i) /\ \A j \in 1..(i - 1) : ~OccursAt(s, k, j)
    ELSE 0

\* s.replace(old, new), old not empty: non-overlapping occurrences, left to right
RECURSIVE Replace(_, _, _)
Replace(s, old, new) ==
    LET i == Find(s, old)
    IN  IF i = 0 THEN s
        ELSE Upto(s, i - 1) \o new \o Replace(From(s, i + Len(old)), old, new)

\* s.rstrip(c), s.lstrip(c) for one character c
RECURSIVE RStrip(_, _)
RStrip(s, c) == IF Len(s) > 0 /\ s[Len(s)] = c THEN RStrip(Upto(s, Len(s) - 1), c) ELSE s
RECURSIVE LStrip(_, _)
LStrip(s, c) == IF Len(s) > 0 /\ s[1] = c THEN LStrip(Tail(s), c) ELSE s

\* s.strip(): leading and trailing whitespace removed
RECURSIVE Strip(_)
Strip(s) ==
    IF Len(s) > 0 /\ s[1] \in Whitespace THEN Strip(Tail(s))
    ELSE IF Len(s) > 0 /\ s[Len(s)] \in Whitespace THEN Strip(Upto(s, Len(s) - 1))
    ELSE s

\* the position of the first character of s that is in cs, Len(s) + 1 when there is none
FirstOf(s, cs) ==
    IF \E i \in DOMAIN s : s[i] \in cs
    THEN CHOOSE i \in DOMAIN s : s[i] \in cs /\ \A j \in 1..(i - 1) : s[j] \notin cs
    ELSE Len(s) + 1

\* s.split(sep)[-1] for a one-character sep
LastField(s, sep) ==
    IF \E i \in DOMAIN s : s[i] = sep
    THEN From(s, 1 + CHOOSE i \in DOMAIN s : s[i] = sep /\ \A j \in (i + 1)..Len(s) : s[j] # sep)
    ELSE s

-----------------------------------------------------------------------------
(* IEEE-754 doubles.  A double d is the record [h, e] with                 *)
(*     d = h / 100 + e * 2^-55 / 100,                                      *)
(* h the nearest hundredth and e the rounding error in units of            *)
(* 2^-55 / 100.  Every double of the model is a multiple of 2^-55 or of a  *)
(* coarser power of two, so e is an integer.  Sums are exact in (h, e);    *)
(* Round rounds them to the nearest double, ties to even, with the ulp of  *)
(* the binade of the result: 2^55 * h mod 2 ulp is 768 * h mod 2 ulp for   *)
(* every ulp used here, since 2^55 = 768 (mod 3200).                       *)

Ulp(h, e) ==
    IF h > 200 \/ (h = 200 /\ e >= 0) THEN 1600
    ELSE IF h > 100 \/ (h = 100 /\ e >= 0) THEN 800
    ELSE IF h > 50 \/ (h = 50 /\ e >= 0) THEN 400
    ELSE IF h > 25 \/ (h = 25 /\ e >= 0) THEN 200
    ELSE IF h >= 13 THEN 100
    ELSE IF h >= 7 THEN 50
    ELSE IF h >= 4 THEN 25
    ELSE 0   \* below 2^-5 every value of the model is exact

RoundPos(h, e) ==
    LET u == Ulp(h, e)
    IN  IF u = 0 THEN [h |-> h, e |-> e]
        ELSE LET m == (768 * h + e) % (2 * u)
                 r == m % u
                 odd == m >= u
             IN  IF r = 0 THEN [h |-> h, e |-> e]
                 ELSE IF 2 * r < u THEN [h |-> h, e |-> e - r]
                 ELSE IF 2 * r > u THEN [h |-> h, e |-> e + u - r]
                 ELSE IF odd THEN [h |-> h, e |-> e + u - r]
                 ELSE [h |-> h, e |-> e - r]

Round(h, e) ==
    IF h > 0 \/ (h = 0 /\ e >= 0) THEN RoundPos(h, e)
    ELSE LET a == RoundPos(-h, -e) IN [h |-> -a.h, e |-> -a.e]

\* the double a Python literal of h hundredths denotes
F(h) == Round(h, 0)

FAdd(a, b) == Round(a.h + b.h, a.e + b.e)
FSub(a, b) == Round(a.h - b.h, a.e - b.e)
FLt(a, b) == a.h < b.h \/ (a.h = b.h /\ a.e < b.e)
FGt(a, b) == FLt(b, a)
FGe(a, b) == ~FLt(a, b)
FLe(a, b) == ~FLt(b, a)
FMin(a, b) == IF FLt(b, a) THEN b ELSE a   \* min(a, b) of Python: a unless b < a
FMax(a, b) == IF FGt(b, a) THEN b ELSE a   \* max(a, b) of Python: a unless b > a

-----------------------------------------------------------------------------
(* Dictionaries: functions whose domain is the set of keys                 *)

EmptyMap == [k \in {} |-> None]
Put(m, k, v) == [x \in (DOMAIN m) \cup {k} |-> IF x = k THEN v ELSE m[x]]

-----------------------------------------------------------------------------
(* urllib.parse, as far as the code uses it                                *)

\* urlparse(url), the scheme: the characters before the first ":" at c when they are
\* a letter followed by letters, digits, "+", "-" and ".", else none
UrlScheme(url, c) ==
    IF /\ 1 < c /\ c <= Len(url)
       /\ IsAlpha(url[1])
       /\ \A j \in 1..(c - 1) : IsAlnum(url[j]) \/ url[j] \in {"+", "-", "."}
    THEN Upto(url, c - 1) ELSE <<>>

\* urlparse(url), the path: what precedes the query and the fragment
UrlPath(tail) == Upto(tail, FirstOf(tail, {"?", "#"}) - 1)

\* urlparse(url), the netloc: after "//", up to the first "/", "?" or "#" at d
UrlNetlocAt(scheme, after, d) ==
    [scheme |-> Lower(scheme), netloc |-> Upto(after, d - 1), path |-> UrlPath(From(after, d))]

UrlNetloc(scheme, after) == UrlNetlocAt(scheme, after, FirstOf(after, {"/", "?", "#"}))

\* urlparse(url), what follows the scheme
UrlHier(scheme, rest) ==
    IF StartsWith(rest, <<"/","/">>) THEN UrlNetloc(scheme, From(rest, 3))
    ELSE [scheme |-> Lower(scheme), netloc |-> <<>>, path |-> UrlPath(rest)]

UrlAfterScheme(url, scheme) ==
    UrlHier(scheme, IF scheme = <<>> THEN url ELSE From(url, Len(scheme) + 2))

\* urlparse(url): scheme, netloc and path
UrlParse(url) == UrlAfterScheme(url, UrlScheme(url, FirstOf(url, {":"})))

\* urljoin(base, href) for a base without a path (base_url is scheme://netloc)
UrlJoin(base, href) ==
    IF href = <<>> THEN base
    ELSE IF UrlParse(href).scheme # <<>> THEN href
    ELSE IF StartsWith(href, <<"/","/">>) THEN UrlParse(base).scheme \o <<":">> \o href
    ELSE IF href[1] \in {"/", "?", "#"} THEN base \o href
    ELSE base \o <<"/">> \o href

HasHttpScheme(s) == StartsWith(s, <<"h","t","t","p",":","/","/">>) \/ StartsWith(s, <<"h","t","t","p","s",":","/","/">>)

\* utils.normalize_url
normalize_url(url) ==
    RStrip(IF HasHttpScheme(url) THEN url ELSE <<"h","t","t","p","s",":","/","/">> \o url, "/")

-----------------------------------------------------------------------------
(* PolicyDiscovery: class constants                                        *)

DocTypes == {"privacy", "terms", "dpa"}
\* the key order of POLICY_KEYWORDS and URL_KEYWORDS
DocTypeOrder == <<"privacy", "terms", "dpa">>

\* DOMAIN_OVERRIDES.get(key): the dict of the key, EmptyMap for None
DOMAIN_OVERRIDES(key) ==
    IF key = <<"g","o","o","g","l","e",".","c","o","m">>
    THEN [dt \in {"privacy", "terms"} |->
            IF dt = "privacy" THEN <<"h","t","t","p","s",":","/","/","p","o","l","i","c","i","e","s",".","g","o","o","g","l","e",".","c","o","m","/","p","r","i","v","a","c","y">>
            ELSE <<"h","t","t","p","s",":","/","/","p","o","l","i","c","i","e","s",".","g","o","o","g","l","e",".","c","o","m","/","t","e","r","m","s">>]
    ELSE EmptyMap

HEURISTIC_PATHS ==
    << <<"/","p","r","i","v","a","c","y">>, <<"/","p","r","i","v","a","c","y","-","p","o","l","i","c","y">>, <<"/","p","r","i","v","a","c","y","_","p","o","l","i","c","y">>, <<"/","p","o","l","i","c","i","e","s","/","p","r","i","v","a","c","y">>,
       <<"/","p","o","l","i","c","y","/","p","r","i","v","a","c","y">>, <<"/","t","e","r","m","s">>, <<"/","t","e","r","m","s","-","o","f","-","s","e","r","v","i","c","e">>, <<"/","t","e","r","m","s","_","o","f","_","s","e","r","v","i","c","e">>,
       <<"/","t","o","s">>, <<"/","t","e","r","m","s","-","o","f","-","u","s","e">>, <<"/","p","o","l","i","c","i","e","s","/","t","e","r","m","s">>, <<"/","p","o","l","i","c","y","/","t","e","r","m","s">>,
       <<"/","l","e","g","a","l">>, <<"/","l","e","g","a","l","-","n","o","t","i","c","e","s">>, <<"/","l","e","g","a","l","/","p","r","i","v","a","c","y">>, <<"/","d","a","t","a","-","p","r","i","v","a","c","y">>,
       <<"/","d","a","t","a","-","p","r","o","t","e","c","t","i","o","n">>, <<"/","d","p","a">>, <<"/","c","o","o","k","i","e","s">>, <<"/","c","o","o","k","i","e","-","p","o","l","i","c","y">> >>

POLICY_KEYWORDS(doc_type) ==
    CASE doc_type = "privacy" ->
            {<<"p","r","i","v","a","c","y">>, <<"d","a","t","a"," ","p","r","o","t","e","c","t","i","o","n">>, <<"g","d","p","r">>, <<"p","r","i","v","a","c","y"," ","p","o","l","i","c","y">>}
      [] doc_type = "terms" ->
            {<<"t","e","r","m","s">>, <<"t","e","r","m","s"," ","o","f"," ","s","e","r","v","i","c","e">>, <<"t","o","s">>, <<"t","e","r","m","s"," ","o","f"," ","u","s","e">>, <<"e","u","l","a">>}
      [] doc_type = "dpa" ->
            {<<"d","a","t","a"," ","p","r","o","c","e","s","s","i","n","g">>, <<"d","p","a">>, <<"d","a","t","a"," ","a","g","r","e","e","m","e","n","t">>}

URL_KEYWORDS(doc_type) ==
    CASE doc_type = "privacy" ->
            {<<"p","r","i","v","a","c","y">>, <<"p","r","i","v","a","c","y","-","p","o","l","i","c","y">>, <<"p","r","i","v","a","c","y","_","p","o","l","i","c","y">>, <<"d","a","t","a","-","p","r","i","v","a","c","y">>,
             <<"d","a","t","a","-","p","r","o","t","e","c","t","i","o","n">>, <<"c","o","o","k","i","e">>}
      [] doc_type = "terms" ->
            {<<"t","e","r","m","s">>, <<"t","e","r","m","s","-","o","f","-","s","e","r","v","i","c","e">>, <<"t","e","r","m","s","_","o","f","_","s","e","r","v","i","c","e">>, <<"t","e","r","m","s","-","o","f","-","u","s","e">>,
             <<"t","o","s">>, <<"e","u","l","a">>}
      [] doc_type = "dpa" ->
            {<<"d","p","a">>, <<"d","a","t","a","-","p","r","o","c","e","s","s","i","n","g">>, <<"d","a","t","a","_","p","r","o","c","e","s","s","i","n","g">>, <<"p","r","o","c","e","s","s","i","n","g">>,
             <<"p","r","o","c","e","s","s","o","r">>}

\* the literal confidences of the module, in hundredths
OverrideConfidence == 99
SitemapBase == 85
FooterPolicyConfidence == 80
FooterConfidence == 70
HeuristicConfidence == 60
LinkTextConfidence == 75
ScoreCap == 99

\* the default None of DiscoveredPolicy.http_status
NoStatus == 0

\* DiscoveredPolicy(url, doc_type, discovered_via, confidence, http_status, is_canonical)
DiscoveredPolicy(url, doc_type, via, confidence, http_status, is_canonical) ==
    [url |-> url, doc_type |-> doc_type, discovered_via |-> via,
     confidence |-> confidence, http_status |-> http_status,
     is_canonical |-> is_canonical]

-----------------------------------------------------------------------------
(* PolicyDiscovery: pure helpers                                           *)

\* PolicyDiscovery._normalize_domain
normalize_domain(d) ==
    LET parsed == UrlParse(IF HasHttpScheme(d) THEN d ELSE <<"h","t","t","p","s",":","/","/">> \o d)
    IN  parsed.scheme \o <<":","/","/">> \o parsed.netloc

\* discover, line 121: urlparse(self.base_url).netloc.lower().replace('www.', '')
override_key(b) == Replace(Lower(UrlParse(b).netloc), <<"w","w","w",".">>, <<>>)

\* _infer_doc_type_from_url, lines 164-171: the first doc type, in the order of
\* URL_KEYWORDS, one of whose keywords the lower-cased path holds
infer_doc_type_from_path(path) ==
    IF ContainsAny(path, URL_KEYWORDS("privacy")) THEN "privacy"
    ELSE IF ContainsAny(path, URL_KEYWORDS("terms")) THEN "terms"
    ELSE IF ContainsAny(path, URL_KEYWORDS("dpa")) THEN "dpa"
    ELSE None

\* PolicyDiscovery._infer_doc_type_from_url: a doc type, or None
infer_doc_type_from_url(url) == infer_doc_type_from_path(Lower(UrlParse(url).path))

\* _is_non_policy_candidate, lines 184-188, for the lower-cased url
is_non_policy_lower(lower) ==
    IF ContainsAny(lower, {<<".","x","m","l">>, <<".","g","z">>}) THEN TRUE
    ELSE IF Contains(lower, <<"s","i","t","e","m","a","p">>) THEN TRUE
    ELSE FALSE

\* PolicyDiscovery._is_non_policy_candidate
is_non_policy_candidate(url) == is_non_policy_lower(Lower(url))

\* _score_policy_candidate: the statements "confidence += by" and "confidence -= by"
\* whose condition holds, applied in order
RECURSIVE adjust_confidence(_, _)
adjust_confidence(confidence, steps) ==
    IF steps = <<>> THEN confidence
    ELSE LET step == Head(steps)
             adjusted == IF ~step.on THEN confidence
                         ELSE IF step.op = "+=" THEN FAdd(confidence, F(step.by))
                         ELSE FSub(confidence, F(step.by))
         IN  adjust_confidence(adjusted, Tail(steps))

\* _score_policy_candidate, lines 196-217: the adjustments and their conditions, for
\* the lower-cased host and path and the path without trailing "/"
score_steps(url, doc_type, host, path, bare) ==
    << [op |-> "+=", by |-> 25, on |-> StartsWith(host, <<"p","o","l","i","c","i","e","s",".">>)],
       [op |-> "+=", by |-> 20,
        on |-> Contains(path, <<"/","p","o","l","i","c","i","e","s","/">>) \/ StartsWith(path, <<"/","p","o","l","i","c","i","e","s">>)],
       [op |-> "+=", by |-> 15, on |-> Contains(path, <<"/","l","e","g","a","l">>)],
       [op |-> "+=", by |-> 20,
        on |-> doc_type = "privacy" /\ bare \in {<<"/","p","r","i","v","a","c","y">>, <<"/","p","r","i","v","a","c","y","-","p","o","l","i","c","y">>, <<"/","p","r","i","v","a","c","y","_","p","o","l","i","c","y">>}],
       [op |-> "+=", by |-> 20,
        on |-> doc_type = "terms" /\ bare \in {<<"/","t","e","r","m","s">>, <<"/","t","e","r","m","s","-","o","f","-","s","e","r","v","i","c","e">>, <<"/","t","e","r","m","s","_","o","f","_","s","e","r","v","i","c","e">>, <<"/","t","o","s">>}],
       [op |-> "+=", by |-> 15,
        on |-> doc_type = "dpa" /\ bare \in {<<"/","d","p","a">>, <<"/","d","a","t","a","-","p","r","o","c","e","s","s","i","n","g">>, <<"/","d","a","t","a","_","p","r","o","c","e","s","s","i","n","g">>}],
       [op |-> "-=", by |-> 35,
        on |-> ContainsAny(path, {<<"/","f","i","n","a","n","c","e","/">>, <<"/","q","u","o","t","e","/">>, <<"/","w","h","i","t","e","p","a","p","e","r">>, <<"/","p","h","o","t","o","s","/">>, <<"/","s","i","t","e","m","a","p">>})],
       [op |-> "-=", by |-> 50, on |-> is_non_policy_candidate(url)] >>

score_lowered(url, doc_type, base_confidence, host, path) ==
    FMax(F(0), FMin(F(ScoreCap),
                    adjust_confidence(base_confidence,
                                      score_steps(url, doc_type, host, path, RStrip(path, "/")))))

score_parsed(url, doc_type, base_confidence, parsed) ==
    score_lowered(url, doc_type, base_confidence, Lower(parsed.netloc), Lower(parsed.path))

\* PolicyDiscovery._score_policy_candidate
score_policy_candidate(url, doc_type, base_confidence) ==
    score_parsed(url, doc_type, base_confidence, UrlParse(url))

-----------------------------------------------------------------------------
(* Bounds of the inputs of discover                                        *)

MaxLocs == 2         \* <loc> entries of one sitemap document
MaxLinks == 2        \* anchors of the home page
MaxRobotsLines == 1  \* lines of robots.txt
MaxChildren == 1     \* child sitemaps of one sitemap index

\* the sequences over S of length at most n
SeqsUpTo(S, n) == UNION {[1..k -> S] : k \in 0..n}

\* the domain argument of PolicyDiscovery(domain)
Domains == {<<"e","x","a","m","p","l","e",".","c","o","m">>, <<"h","t","t","p","s",":","/","/","W","W","W",".","G","o","o","g","l","e",".","c","o","m","/","a","b","o","u","t">>}

\* values of settings.discovery_methods_list: the default, a reversed order, and a
\* list with an unknown name and a strategy named twice
KnownMethods == {"sitemap", "footer", "heuristic", "link_text"}
MethodConfigs ==
    { <<"sitemap", "footer", "heuristic", "link_text">>,
      <<"link_text", "heuristic", "footer", "sitemap">>,
      <<"link_text", "dns", "footer", "link_text">> }

\* lines of robots.txt
RobotsLinePool == {<<"S","i","t","e","m","a","p",":"," ","h","t","t","p","s",":","/","/","e","x","a","m","p","l","e",".","c","o","m","/","s","i","t","e","m","a","p","-","p","a","g","e","s",".","x","m","l">>, <<"U","s","e","r","-","a","g","e","n","t",":"," ","*">>}
\* the text of the <loc> elements of a sitemap
LocPool ==
    { <<"h","t","t","p","s",":","/","/","e","x","a","m","p","l","e",".","c","o","m","/","p","r","i","v","a","c","y">>,
      <<"h","t","t","p","s",":","/","/","e","x","a","m","p","l","e",".","c","o","m","/","p","o","l","i","c","i","e","s","/","f","i","n","a","n","c","e","/","p","r","i","v","a","c","y","-","n","o","t","i","c","e">>,
      <<" ","h","t","t","p","s",":","/","/","e","x","a","m","p","l","e",".","c","o","m","/","p","h","o","t","o","s","/"," ">>,
      <<"h","t","t","p","s",":","/","/","e","x","a","m","p","l","e",".","c","o","m","/","s","i","t","e","m","a","p","-","p","a","g","e","s",".","x","m","l">> }
\* the anchors of the home page: href and text
LinkPool ==
    { [href |-> <<"/","p","r","i","v","a","c","y","-","p","o","l","i","c","y">>, text |-> <<"P","r","i","v","a","c","y"," ","P","o","l","i","c","y">>],
      [href |-> <<"/","p","r","i","v","a","c","y">>, text |-> <<"P","r","i","v","a","c","y">>],
      [href |-> <<"h","t","t","p","s",":","/","/","l","e","g","a","l",".","e","x","a","m","p","l","e",".","c","o","m","/","t","o","s">>, text |-> <<" ","T","e","r","m","s"," ","o","f"," ","U","s","e"," ">>],
      [href |-> <<>>, text |-> <<"G","D","P","R">>],
      [href |-> <<"/","b","l","o","g">>, text |-> <<>>] }
\* the paths the site may answer with 200, and the targets it may redirect a probe to
LivePaths == {<<"/","p","r","i","v","a","c","y">>, <<"/","t","o","s">>, <<"/","l","e","g","a","l">>, <<"/","d","p","a">>}
RedirectPool == {<<"/","l","e","g","a","l","/","p","r","i","v","a","c","y","-","c","e","n","t","e","r">>, <<"/">>}

\* what session.get(robots_url) gives: it raises, or the lines of resp.text
RobotsResponses ==
    {[kind |-> "error"]}
    \cup {[kind |-> "text", lines |-> l] : l \in SeqsUpTo(RobotsLinePool, MaxRobotsLines)}
\* what fetching and parsing one sitemap gives: an exception, resp.ok false, a urlset
\* with its <loc> texts, or a sitemapindex with n children
SitemapResponses ==
    {[kind |-> "error"], [kind |-> "notok"]}
    \cup {[kind |-> "urlset", locs |-> l] : l \in SeqsUpTo(LocPool, MaxLocs)}
    \cup {[kind |-> "index", children |-> n] : n \in 0..MaxChildren}
\* what fetching one child of an index gives: an exception, resp.ok false, a urlset,
\* or a sitemapindex that lists a further sitemap
ChildResponses ==
    {[kind |-> "error"], [kind |-> "notok"]}
    \cup {[kind |-> "urlset", locs |-> l] : l \in SeqsUpTo(LocPool, MaxLocs)}
    \cup {[kind |-> "index", locs |-> <<<<"h","t","t","p","s",":","/","/","e","x","a","m","p","l","e",".","c","o","m","/","s","i","t","e","m","a","p","-","p","a","g","e","s",".","x","m","l">>>>]}
\* lines 256-259: find_all('loc') of the child document, whatever its root element
has_locs(doc) == doc.kind \in {"urlset", "index"}
\* lines 259-272: the sitemaps a child document adds to those to fetch (none: its
\* <loc> entries are candidate urls)
child_follows_index(doc) == IF doc.kind = "index" THEN Len(doc.locs) ELSE 0
child_follows(doc) == 0
\* what session.get(base_url) gives: it raises, or a page with its anchors, inside a
\* footer element or not
HomePages ==
    {[kind |-> "error"]}
    \cup {[kind |-> "page", footer |-> f, links |-> l] :
            f \in BOOLEAN, l \in SeqsUpTo(LinkPool, MaxLinks)}
\* what one HEAD or GET of the probed path gives: it raises, or a response
ProbeResponses(base, path) ==
    {[kind |-> "error"]}
    \cup {[kind |-> "response", status_code |-> s, url |-> base \o path] : s \in {404, 403, 405}}
    \cup {[kind |-> "response", status_code |-> 200, url |-> u] :
            u \in IF path \in LivePaths
                  THEN {base \o path} \cup {base \o r : r \in RedirectPool} ELSE {}}

-----------------------------------------------------------------------------
(* History of the candidates of a run                                      *)

FMaxOf(S) == CHOOSE x \in S : \A y \in S : FGe(x, y)

\* seen, with the candidates cands (pairs <<doc_type, confidence>>) added
SeenAll(seen, cands) ==
    [dt \in (DOMAIN seen) \cup {c[1] : c \in cands} |->
        FMaxOf((IF dt \in DOMAIN seen THEN {seen[dt]} ELSE {})
               \cup {c[2] : c \in {x \in cands : x[1] = dt}})]

-----------------------------------------------------------------------------
(* The strategies                                                          *)

\* _discover_via_sitemap, lines 231-233: the targets of the Sitemap: lines
RECURSIVE sitemap_directives(_)
sitemap_directives(lines) ==
    IF lines = <<>> THEN <<>>
    ELSE LET line == Head(lines)
         IN  (IF StartsWith(Lower(line), <<"s","i","t","e","m","a","p",":">>)
              THEN <<Strip(From(line, Find(line, <<":">>) + 1))>> ELSE <<>>)
             \o sitemap_directives(Tail(lines))

\* _discover_via_sitemap, lines 280-289 (and 262-271): the candidate of a url,
\* doc_type None when it gives none
sitemap_policy(url, doc_type) ==
    IF doc_type = None THEN [doc_type |-> None]
    ELSE DiscoveredPolicy(url, doc_type, "sitemap",
                          score_policy_candidate(url, doc_type, F(SitemapBase)),
                          NoStatus, TRUE)

\* _discover_via_sitemap, lines 278-282 (and 260-264): a url that is not skipped
sitemap_url(url) ==
    sitemap_policy(url, IF is_non_policy_candidate(url) THEN None
                        ELSE infer_doc_type_from_url(url))

\* _discover_via_sitemap, lines 277-289 (and 259-271): the candidate a <loc> gives
sitemap_candidate(loc) == sitemap_url(Strip(loc))

\* the candidates of the <loc> texts of the model, computed once
SitemapCandidateOf == [loc \in LocPool |-> sitemap_candidate(loc)]

\* _discover_via_sitemap, lines 283-289 (and 265-271): a candidate is kept if it is the
\* first of its doc type or has a strictly higher confidence
sitemap_keep(pol, c) ==
    IF c.doc_type = None THEN pol
    ELSE IF c.doc_type \notin DOMAIN pol \/ FGt(c.confidence, pol[c.doc_type].confidence)
    THEN Put(pol, c.doc_type, c)
    ELSE pol

sitemap_loc(pol, loc) == sitemap_keep(pol, SitemapCandidateOf[loc])

RECURSIVE sitemap_locs(_, _)
sitemap_locs(pol, locs) ==
    IF locs = <<>> THEN pol ELSE sitemap_locs(sitemap_loc(pol, Head(locs)), Tail(locs))

\* the candidates the sitemap strategy builds from locs, as <<doc_type, confidence>>
sitemap_candidates(locs) ==
    {<<c.doc_type, c.confidence>> :
        c \in {x \in {SitemapCandidateOf[l] : l \in Range(locs)} : x.doc_type # None}}

\* the doc types whose keywords the (lower-cased) link text holds
keyword_hits(text) == {dt \in DocTypes : ContainsAny(text, POLICY_KEYWORDS(dt))}

\* _discover_via_footer, lines 313-323: what an anchor of the footer gives
footer_anchor(link) ==
    LET text == Lower(link.text)
    IN  [skip |-> link.href = <<>>,
         hits |-> keyword_hits(text),
         confidence |-> IF Contains(text, <<"p","o","l","i","c","y">>) THEN F(FooterPolicyConfidence)
                        ELSE F(FooterConfidence)]

\* _discover_via_link_text, lines 377-386: what an anchor of the page gives
link_text_anchor(link) ==
    LET text == Strip(Lower(link.text))
    IN  [skip |-> link.href = <<>> \/ text = <<>>,
         hits |-> keyword_hits(text),
         confidence |-> F(LinkTextConfidence)]

\* the anchors of the model, computed once
FooterAnchorOf == [link \in LinkPool |-> footer_anchor(link)]
LinkTextAnchorOf == [link \in LinkPool |-> link_text_anchor(link)]

\* lines 319-329 and 383-392: policies[doc_type] is set for every doc type the anchor
\* matches, whatever policies held for it
anchor_policies(pol, base, link, anchor, via) ==
    IF anchor.skip THEN pol
    ELSE [dt \in (DOMAIN pol) \cup anchor.hits |->
            IF dt \in anchor.hits
            THEN DiscoveredPolicy(UrlJoin(base, link.href), dt, via, anchor.confidence,
                                  NoStatus, TRUE)
            ELSE pol[dt]]

RECURSIVE footer_links(_, _, _)
footer_links(pol, base, links) ==
    IF links = <<>> THEN pol
    ELSE footer_links(anchor_policies(pol, base, Head(links), FooterAnchorOf[Head(links)],
                                      "footer"),
                      base, Tail(links))

RECURSIVE link_text_links(_, _, _)
link_text_links(pol, base, links) ==
    IF links = <<>> THEN pol
    ELSE link_text_links(anchor_policies(pol, base, Head(links),
                                         LinkTextAnchorOf[Head(links)], "link_text"),
                         base, Tail(links))

anchor_candidates(anchors) ==
    UNION {{<<dt, a.confidence>> : dt \in a.hits} : a \in {x \in anchors : ~x.skip}}

footer_candidates(links) == anchor_candidates({FooterAnchorOf[l] : l \in Range(links)})

link_text_candidates(links) == anchor_candidates({LinkTextAnchorOf[l] : l \in Range(links)})

\* _discover_via_footer: the policies of a home page
discover_via_footer(base, page) ==
    IF page.kind = "error" THEN EmptyMap
    ELSE IF ~page.footer THEN EmptyMap
    ELSE footer_links(EmptyMap, base, page.links)

\* _discover_via_link_text: the policies of a home page
discover_via_link_text(base, page) ==
    IF page.kind = "error" THEN EmptyMap ELSE link_text_links(EmptyMap, base, page.links)

\* the None that _fetch_head_or_get returns when the request raised
NoResponse == [kind |-> "none"]

\* _fetch_head_or_get: None, or the response of the HEAD, or of the GET after a 403 / 405
fetch_head_or_get(head, get) ==
    IF head.kind = "error" THEN NoResponse
    ELSE IF head.status_code \in {405, 403}
    THEN (IF get.kind = "error" THEN NoResponse ELSE get)
    ELSE head

\* the doc types of the urls a probe can meet, computed once
ProbeUrls ==
    UNION {{normalize_domain(d) \o p :
              p \in Range(HEURISTIC_PATHS) \cup RedirectPool} : d \in Domains}
InferredDocType == [u \in ProbeUrls |-> infer_doc_type_from_url(u)]

\* _discover_via_heuristic, line 351: a or b of Python for doc types
first_doc_type(a, b) == IF a # None THEN a ELSE b

\* _discover_via_heuristic, lines 348-351: the doc type of a response, None when the
\* probe gives no candidate
heuristic_doc_type(url, resp) ==
    IF resp = NoResponse THEN None
    ELSE IF resp.status_code # 200 THEN None
    ELSE first_doc_type(InferredDocType[resp.url], InferredDocType[url])

\* _discover_via_heuristic, lines 352-360: the candidate of a probe is stored
heuristic_policy(pol, url, resp, doc_type) ==
    IF doc_type = None THEN pol
    ELSE Put(pol, doc_type,
             DiscoveredPolicy(resp.url, doc_type, "heuristic", F(HeuristicConfidence),
                              resp.status_code, resp.url = url))

\* _discover_via_heuristic, lines 341-360: one probed path
heuristic_probe(pol, url, resp) ==
    heuristic_policy(pol, url, resp, heuristic_doc_type(url, resp))

\* the candidate a probe built, as a set of <<doc_type, confidence>>
heuristic_candidate(doc_type) ==
    IF doc_type = None THEN {} ELSE {<<doc_type, F(HeuristicConfidence)>>}

-----------------------------------------------------------------------------
(* discover: the override entries and the merge                            *)

\* discover, lines 123-130: the entries of the override table, inserted first
insert_overrides_missing(ov) == EmptyMap
insert_overrides(ov) ==
    [dt \in DOMAIN ov |->
        DiscoveredPolicy(ov[dt], dt, "heuristic", F(OverrideConfidence), NoStatus, TRUE)]

\* discover, lines 150-152: the candidate policy replaces the one kept for doc_type
replaces_ge(disc, ov, doc_type, policy) ==
    /\ ~(ov # EmptyMap /\ doc_type \in DOMAIN ov)
    /\ (doc_type \notin DOMAIN disc \/ FGe(policy.confidence, disc[doc_type].confidence))
replaces(disc, ov, doc_type, policy) ==
    /\ ~(ov # EmptyMap /\ doc_type \in DOMAIN ov)
    /\ (doc_type \notin DOMAIN disc \/ FGt(policy.confidence, disc[doc_type].confidence))

\* discover, lines 149-153: the policies of one strategy merged into discovered
merge(disc, ov, pol) ==
    [dt \in (DOMAIN disc) \cup {d \in DOMAIN pol : replaces(disc, ov, d, pol[d])} |->
        IF dt \in DOMAIN pol /\ replaces(disc, ov, dt, pol[dt]) THEN pol[dt] ELSE disc[dt]]

\* discover, lines 155-157: where the loop goes on after a strategy raised
after_strategy_error_break(i) == [pc |-> "exit_ok", idx |-> i]
after_strategy_error_raise(i) == [pc |-> "exit_exc", idx |-> i]
after_strategy_error(i) == [pc |-> "loop", idx |-> i + 1]

\* retry(max_attempts=3, delay=1.0, backoff=2.0) on discover
discover_max_attempts == 3

-----------------------------------------------------------------------------
(* discover as a state machine                                             *)

\* the variables of the other operations while discover runs
NoCompany ==
    /\ cpc = "idle" /\ company = <<>> /\ company_data = <<>> /\ switches = <<>>
    /\ enriched = <<>> /\ metadata = <<>> /\ attached = FALSE /\ failure = "none"
    /\ attempted = <<>>

NoExtract == xpc = "idle" /\ xinput = <<>> /\ xfound = <<>> /\ xout = <<>>

NoRetry ==
    /\ rpc = "idle" /\ max_attempts = 0 /\ delay = 0 /\ backoff = 0 /\ call = <<>>
    /\ invoked = <<>> /\ slept = <<>> /\ ended = <<>>

NoTasks == tasks = <<>> /\ running = 0 /\ gathered = "idle"
NoBatch ==
    /\ bpc = "idle" /\ rows = <<>> /\ domains = [none |-> TRUE] /\ companies = <<>>
    /\ position = 0 /\ entered = <<>> /\ exc = <<>> /\ caught = <<>> /\ tracker = 0
NoWriters == shared = <<>> /\ writers = <<>> /\ writes = <<>>
NoPipeline == NoTasks /\ NoBatch /\ NoWriters

NoEnrich ==
    /\ epc = "idle" /\ field = "none" /\ current = [none |-> TRUE] /\ use_llm = FALSE
    /\ flag = "absent" /\ results = <<>> /\ llm = [kind |-> "idle"]
    /\ result = [none |-> TRUE] /\ eraised = FALSE /\ patternCalls = 0 /\ llmCalls = 0

InitDiscover ==
    /\ pc = "wrapper"
    /\ domain \in Domains
    /\ base_url = normalize_domain(domain)
    /\ methods \in MethodConfigs
    /\ idx = 1
    /\ override = EmptyMap
    /\ discovered = EmptyMap
    /\ policies = EmptyMap
    /\ todo = <<>>
    /\ kids = 0
    /\ allowance = 0
    /\ nested = 0
    /\ attempt = 0
    /\ invocations = 0
    /\ outcome = "none"
    /\ executed = <<>>
    /\ raisedIn = {}
    /\ seenMax = EmptyMap
    /\ retMax = EmptyMap
    /\ tied = {}
    /\ NoEnrich /\ NoCompany /\ NoExtract /\ NoRetry /\ NoPipeline

\* retry.wrapper, lines 87-89, entering discover, lines 118-133
Invoke ==
    /\ pc = "wrapper"
    /\ attempt < discover_max_attempts
    /\ invocations' = invocations + 1
    /\ override' = DOMAIN_OVERRIDES(override_key(base_url))
    /\ discovered' = insert_overrides(override')
    /\ idx' = 1
    /\ pc' = "loop"
    /\ policies' = EmptyMap
    /\ todo' = <<>>
    /\ kids' = 0
    /\ executed' = <<>>
    /\ raisedIn' = {}
    /\ seenMax' = EmptyMap
    /\ retMax' = EmptyMap
    /\ tied' = {}
    /\ UNCHANGED <<config, attempt, outcome>>
    /\ UNCHANGED <<smvars, evars, cvars, xvars, rvars, pvars>>

AtMethod(m) == pc = "loop" /\ idx <= Len(methods) /\ methods[idx] = m

\* discover, lines 148-153: a strategy returned pol
Merged(pol) ==
    /\ discovered' = merge(discovered, override, pol)
    /\ retMax' = SeenAll(retMax, {<<dt, pol[dt].confidence>> : dt \in DOMAIN pol})
    /\ tied' = tied \cup
         {dt \in (DOMAIN pol) \cap (DOMAIN discovered) :
            /\ dt \notin DOMAIN override
            /\ pol[dt].confidence = discovered[dt].confidence
            /\ pol[dt] # discovered[dt]}
    /\ idx' = idx + 1
    /\ pc' = "loop"
    /\ policies' = EmptyMap

\* discover, lines 145-146: a name that is no strategy
SkipUnknown ==
    /\ pc = "loop" /\ idx <= Len(methods) /\ methods[idx] \notin KnownMethods
    /\ idx' = idx + 1
    /\ UNCHANGED <<pc, config, override, discovered, policies, todo, kids, executed, raisedIn, seenMax, retMax, tied, retryv>>
    /\ UNCHANGED <<smvars, evars, cvars, xvars, rvars, pvars>>

\* discover, lines 136-144 and 155-157: the strategy call raises
StrategyRaises ==
    /\ pc = "loop" /\ idx <= Len(methods) /\ methods[idx] \in KnownMethods
    /\ executed' = Append(executed, methods[idx])
    /\ raisedIn' = raisedIn \cup {idx}
    /\ pc' = after_strategy_error(idx).pc
    /\ idx' = after_strategy_error(idx).idx
    /\ UNCHANGED <<config, override, discovered, policies, todo, kids, seenMax, retMax, tied, retryv>>
    /\ UNCHANGED <<smvars, evars, cvars, xvars, rvars, pvars>>

\* _discover_via_sitemap, lines 223-239: robots.txt and the list of sitemaps
SitemapRobots ==
    /\ AtMethod("sitemap")
    /\ \E r \in RobotsResponses :
         todo' = IF r.kind = "error" THEN <<>>
                 ELSE sitemap_directives(r.lines)
                      \o << UrlJoin(base_url, <<"/","s","i","t","e","m","a","p",".","x","m","l">>),
                            UrlJoin(base_url, <<"/","s","i","t","e","m","a","p","_","i","n","d","e","x",".","x","m","l">>) >>
    /\ pc' = "sitemap"
    /\ policies' = EmptyMap
    /\ kids' = 0
    /\ allowance' = 1 + Len(todo') - 1
    /\ nested' = 0
    /\ executed' = Append(executed, "sitemap")
    /\ UNCHANGED <<config, idx, override, discovered, raisedIn, seenMax, retMax, tied, retryv>>
    /\ UNCHANGED <<evars, cvars, xvars, rvars, pvars>>

\* _discover_via_sitemap, lines 242-250 and 276-293: one sitemap of the list
SitemapFetch ==
    /\ pc = "sitemap" /\ kids = 0 /\ todo # <<>>
    /\ \E doc \in SitemapResponses :
         /\ policies' = IF doc.kind = "urlset" THEN sitemap_locs(policies, doc.locs)
                        ELSE policies
         /\ seenMax' = IF doc.kind = "urlset"
                       THEN SeenAll(seenMax, sitemap_candidates(doc.locs)) ELSE seenMax
         /\ kids' = IF doc.kind = "index" THEN doc.children ELSE 0
         /\ allowance' = allowance + (IF doc.kind = "index" THEN doc.children ELSE 0) - 1
    /\ todo' = Tail(todo)
    /\ nested' = 0
    /\ UNCHANGED <<pc, config, idx, override, discovered, executed, raisedIn, retMax, tied, retryv>>
    /\ UNCHANGED <<evars, cvars, xvars, rvars, pvars>>

\* _discover_via_sitemap, lines 251-274: one child of a sitemap index
SitemapFetchChild ==
    /\ pc = "sitemap" /\ kids > 0
    /\ \E doc \in ChildResponses :
         /\ policies' = IF has_locs(doc) THEN sitemap_locs(policies, doc.locs)
                        ELSE policies
         /\ seenMax' = IF has_locs(doc)
                       THEN SeenAll(seenMax, sitemap_candidates(doc.locs)) ELSE seenMax
         /\ kids' = kids - 1 + child_follows(doc)
         /\ nested' = nested + (IF doc.kind = "index" THEN Len(doc.locs) ELSE 0)
    /\ allowance' = allowance - 1
    /\ UNCHANGED <<pc, config, idx, override, discovered, todo, executed, raisedIn, retMax, tied, retryv>>
    /\ UNCHANGED <<evars, cvars, xvars, rvars, pvars>>

\* _discover_via_sitemap, line 298, and the merge of its policies
SitemapReturn ==
    /\ pc = "sitemap" /\ kids = 0 /\ todo = <<>>
    /\ Merged(policies)
    /\ allowance' = 0 /\ nested' = 0
    /\ UNCHANGED <<config, override, todo, kids, executed, raisedIn, seenMax, retryv>>
    /\ UNCHANGED <<evars, cvars, xvars, rvars, pvars>>

\* _discover_via_footer, and the merge of its policies
Footer ==
    /\ AtMethod("footer")
    /\ \E page \in HomePages :
         /\ Merged(discover_via_footer(base_url, page))
         /\ seenMax' = IF page.kind = "page" /\ page.footer
                       THEN SeenAll(seenMax, footer_candidates(page.links)) ELSE seenMax
    /\ executed' = Append(executed, "footer")
    /\ UNCHANGED <<config, override, todo, kids, raisedIn, retryv>>
    /\ UNCHANGED <<smvars, evars, cvars, xvars, rvars, pvars>>

\* _discover_via_link_text, and the merge of its policies
LinkText ==
    /\ AtMethod("link_text")
    /\ \E page \in HomePages :
         /\ Merged(discover_via_link_text(base_url, page))
         /\ seenMax' = IF page.kind = "page"
                       THEN SeenAll(seenMax, link_text_candidates(page.links)) ELSE seenMax
    /\ executed' = Append(executed, "link_text")
    /\ UNCHANGED <<config, override, todo, kids, raisedIn, retryv>>
    /\ UNCHANGED <<smvars, evars, cvars, xvars, rvars, pvars>>

\* _discover_via_heuristic, lines 338-340: the loop over HEURISTIC_PATHS starts
HeuristicStart ==
    /\ AtMethod("heuristic")
    /\ todo' = HEURISTIC_PATHS
    /\ pc' = "heuristic"
    /\ policies' = EmptyMap
    /\ executed' = Append(executed, "heuristic")
    /\ UNCHANGED <<config, idx, override, discovered, kids, raisedIn, seenMax, retMax, tied, retryv>>
    /\ UNCHANGED <<smvars, evars, cvars, xvars, rvars, pvars>>

\* _discover_via_heuristic, lines 341-364: one path is probed
HeuristicProbe ==
    /\ pc = "heuristic" /\ todo # <<>>
    /\ LET url == UrlJoin(base_url, Head(todo))
       IN  \E head \in ProbeResponses(base_url, Head(todo)) :
           \E get \in IF head.kind = "response" /\ head.status_code \in {405, 403}
                      THEN ProbeResponses(base_url, Head(todo)) ELSE {head} :
             LET resp == fetch_head_or_get(head, get)
             IN  /\ policies' = heuristic_probe(policies, url, resp)
                 /\ seenMax' = SeenAll(seenMax,
                                       heuristic_candidate(heuristic_doc_type(url, resp)))
    /\ todo' = Tail(todo)
    /\ UNCHANGED <<pc, config, idx, override, discovered, kids, executed, raisedIn, retMax, tied, retryv>>
    /\ UNCHANGED <<smvars, evars, cvars, xvars, rvars, pvars>>

\* _discover_via_heuristic, line 366, and the merge of its policies
HeuristicReturn ==
    /\ pc = "heuristic" /\ todo = <<>>
    /\ Merged(policies)
    /\ UNCHANGED <<config, override, todo, kids, executed, raisedIn, seenMax, retryv>>
    /\ UNCHANGED <<smvars, evars, cvars, xvars, rvars, pvars>>

\* discover, lines 159-160: the loop is over and discovered is returned
LoopEnd ==
    /\ pc = "loop" /\ idx > Len(methods)
    /\ pc' = "exit_ok"
    /\ UNCHANGED <<config, idx, override, discovered, policies, todo, kids, executed, raisedIn, seenMax, retMax, tied, retryv>>
    /\ UNCHANGED <<smvars, evars, cvars, xvars, rvars, pvars>>

\* retry.wrapper, lines 89-101: the body returned, or raised
Finish ==
    /\ pc \in {"exit_ok", "exit_exc"}
    /\ attempt' = IF pc = "exit_exc" THEN attempt + 1 ELSE attempt
    /\ outcome' = IF pc = "exit_ok" THEN "returned"
                  ELSE IF attempt + 1 >= discover_max_attempts THEN "raised"
                  ELSE outcome
    /\ pc' = IF pc = "exit_exc" /\ attempt + 1 < discover_max_attempts THEN "wrapper"
             ELSE "done"
    /\ UNCHANGED <<config, idx, override, discovered, policies, todo, kids, executed, raisedIn, seenMax, retMax, tied, invocations>>
    /\ UNCHANGED <<smvars, evars, cvars, xvars, rvars, pvars>>

NextDiscover ==
    \/ Invoke
    \/ SkipUnknown
    \/ StrategyRaises
    \/ SitemapRobots
    \/ SitemapFetch
    \/ SitemapFetchChild
    \/ SitemapReturn
    \/ Footer
    \/ LinkText
    \/ HeuristicStart
    \/ HeuristicProbe
    \/ HeuristicReturn
    \/ LoopEnd
    \/ Finish

SpecDiscover == InitDiscover /\ [][NextDiscover]_vars

-----------------------------------------------------------------------------
(* Properties of discover                                                  *)

\* C1: for a domain with an entry in the override table, discover returns, for each
\* doc type of the entry, the override url with confidence 0.99, whatever the
\* strategies found and in whatever order they ran.
C1_OverrideReturned ==
    (outcome = "returned" /\ override # EmptyMap) =>
        \A dt \in DOMAIN override :
            /\ dt \in DOMAIN discovered
            /\ discovered[dt].url = override[dt]
            /\ discovered[dt].confidence = F(OverrideConfidence)

\* C1, its case: discover returned for an overridden domain after a strategy had
\* returned a candidate of confidence 0.99 for an overridden doc type.
C1_Witness ==
    /\ outcome = "returned"
    /\ override # EmptyMap
    /\ \E dt \in (DOMAIN override) \cap (DOMAIN retMax) : retMax[dt] = F(ScoreCap)

\* C2: for every doc type without an override, the returned policy has a confidence
\* greater than or equal to that of every candidate any strategy met for that doc type
\* during the run, those met earlier inside one strategy included.
C2_ReturnedIsMaxOfSeen ==
    outcome = "returned" =>
        \A dt \in (DOMAIN seenMax) \ (DOMAIN override) :
            /\ dt \in DOMAIN discovered
            /\ FGe(discovered[dt].confidence, seenMax[dt])

\* C3: in the merge step a candidate replaces the one kept for its doc type only if
\* its confidence is strictly higher; on equal confidences the earlier one is kept.
C3_StrictReplacement ==
    [][pc # "wrapper" =>
         \A dt \in DOMAIN discovered :
            /\ dt \in DOMAIN discovered'
            /\ \/ discovered'[dt] = discovered[dt]
               \/ FGt(discovered'[dt].confidence, discovered[dt].confidence)]_vars

\* C3, its case: a later strategy returned, for a doc type, another candidate of the
\* same confidence as the one kept, and discover returned the earlier one.
C3_Witness ==
    /\ outcome = "returned"
    /\ \E dt \in tied : discovered[dt].confidence = retMax[dt]

\* C4: if a strategy raises, every other configured strategy is still executed, each
\* candidate they return takes part in the merge, and what was merged before the
\* failure stays in the result.
C4_OtherStrategiesStillRun ==
    (outcome = "returned" /\ raisedIn # {}) =>
        /\ executed = SelectSeq(methods, LAMBDA m : m \in KnownMethods)
        /\ \A dt \in DOMAIN retMax :
              /\ dt \in DOMAIN discovered
              /\ dt \notin DOMAIN override => FGe(discovered[dt].confidence, retMax[dt])

\* C4, its case: a strategy in the middle of the list raised, and the result holds a
\* candidate of a strategy that ran before it and one of a strategy that ran after it.
C4_Witness ==
    /\ outcome = "returned"
    /\ override = EmptyMap
    /\ \E i \in raisedIn : \E j \in 1..(i - 1) : \E k \in (i + 1)..Len(methods) :
         \E d1 \in DOMAIN discovered : \E d2 \in DOMAIN discovered :
            /\ methods[j] # methods[k]
            /\ discovered[d1].discovered_via = methods[j]
            /\ discovered[d2].discovered_via = methods[k]

\* C5: when every strategy raises or finds nothing and the domain has no override,
\* discover returns an empty mapping, raises nothing, and is not retried.
C5_AllFailReturnsEmpty ==
    (outcome # "none" /\ override = EmptyMap /\ retMax = EmptyMap) =>
        /\ outcome = "returned"
        /\ discovered = EmptyMap
        /\ invocations = 1
        /\ attempt = 0

\* C5, its case: discover ended for a domain without override after some strategies
\* raised and the others found nothing.
C5_Witness ==
    /\ pc = "done"
    /\ override = EmptyMap
    /\ retMax = EmptyMap
    /\ raisedIn # {}
    /\ Cardinality(raisedIn) < Len(executed)

------------------------------------------------------------------------

-----------------------------------------------------------------------------
(* utils: validators                                                       *)

LocalChars == Range(UpperChars) \cup Range(LowerChars) \cup Digits \cup {".", "_", "%", "+", "-"}
HostChars == Range(UpperChars) \cup Range(LowerChars) \cup Digits \cup {".", "-"}

\* the text a "$" of re.match may leave unread: one trailing newline
BeforeFinalNewline(s) == IF Len(s) > 0 /\ s[Len(s)] = "\n" THEN Upto(s, Len(s) - 1) ELSE s

\* utils.is_valid_email, the pattern with "@" at position i and the last "." at j
email_matches_at(s, i, j) ==
    /\ s[i] = "@"
    /\ s[j] = "."
    /\ 1 < i /\ i + 1 < j /\ j + 2 <= Len(s)
    /\ \A k \in 1..(i - 1) : s[k] \in LocalChars
    /\ \A k \in (i + 1)..(j - 1) : s[k] \in HostChars
    /\ \A k \in (j + 1)..Len(s) : IsAlpha(s[k])

email_matches(s) == \E i \in DOMAIN s : \E j \in DOMAIN s : email_matches_at(s, i, j)

\* utils.is_valid_email
is_valid_email(email) == email_matches(email) \/ email_matches(BeforeFinalNewline(email))

\* utils.is_valid_country_code, valid_codes
valid_codes ==
    { <<"U","S">>, <<"G","B">>, <<"C","A">>, <<"A","U">>, <<"D","E">>, <<"F","R">>, <<"I","T">>, <<"E","S">>, <<"N","L">>, <<"B","E">>,
      <<"C","H">>, <<"A","T">>, <<"S","E">>, <<"N","O">>, <<"D","K">>, <<"F","I">>, <<"P","L">>, <<"C","Z">>, <<"R","U">>, <<"J","P">>,
      <<"C","N">>, <<"I","N">>, <<"B","R">>, <<"M","X">>, <<"Z","A">>, <<"N","Z">>, <<"S","G">>, <<"H","K">>, <<"K","R">>, <<"T","H">> }

\* utils.is_valid_country_code
is_valid_country_code(code) == Upper(code) \in valid_codes

\* s.startswith(('http://', 'https://'))
is_http_link(s) == HasHttpScheme(s)

-----------------------------------------------------------------------------
(* FieldEnricher: results and their order                                  *)

\* ExtractionResult(value, confidence, source)
ExtractionResult(value, confidence, source) ==
    [value |-> value, confidence |-> confidence, source |-> source]

\* the None an Optional holds
NoResult == [none |-> TRUE]
NoValue == [none |-> TRUE]
Some(v) == [none |-> FALSE, value |-> v]

\* the literal confidences and thresholds of enrichment.py, in hundredths
CurrentConfidence == 100
EmailThreshold == 80
CountryThreshold == 85
DeleteLinkThreshold == 80
EmailLlmConfidence == 90
CountryLlmConfidence == 85
DeleteLinkLlmConfidence == 85
TldConfidence == 95
CountryCodeConfidence == 80
CountryCap == 99
DeleteLinkCap == 99
EmailFloor == 10
EmailCap == 100

\* r put into the list rs, sorted by decreasing confidence, after the results of the
\* same confidence
insert_sorted_before(rs, r) ==
    LET k == Cardinality({i \in DOMAIN rs : FGt(rs[i].confidence, r.confidence)})
    IN  SubSeq(rs, 1, k) \o <<r>> \o SubSeq(rs, k + 1, Len(rs))
insert_sorted(rs, r) ==
    LET k == Cardinality({i \in DOMAIN rs : FGe(rs[i].confidence, r.confidence)})
    IN  SubSeq(rs, 1, k) \o <<r>> \o SubSeq(rs, k + 1, Len(rs))

\* sorted(results, key=lambda x: x.confidence, reverse=True): a stable sort
RECURSIVE sorted_by_confidence(_)
sorted_by_confidence(rs) ==
    IF rs = <<>> THEN <<>>
    ELSE insert_sorted(sorted_by_confidence(Upto(rs, Len(rs) - 1)), rs[Len(rs)])

-----------------------------------------------------------------------------
(* Bounds and inputs of the extractors.  What the regular expressions of   *)
(* extract_X find in a text is an input: the matches, in the order the     *)
(* code meets them.                                                        *)

MaxMatches == 2   \* matches the patterns of one extractor find in a text

\* extract_emails: the text of the match (match.group(0)), the confidence of its
\* pattern, and whether the text holds the domain of the email as a word
EmailMatchPool ==
    { [text |-> <<"p","r","i","v","a","c","y","@","a","c","m","e",".","c","o","m">>, base |-> 95, domain_in_text |-> TRUE],
      [text |-> <<"I","n","f","o","@","a","c","m","e",".","c","o","m">>, base |-> 90, domain_in_text |-> FALSE],
      [text |-> <<"b","o","b","@","a","c","m","e",".","c","o","m">>, base |-> 80, domain_in_text |-> FALSE],
      [text |-> <<"j","o","@","g","m","a","i","l",".","c","o","m">>, base |-> 80, domain_in_text |-> TRUE],
      [text |-> <<"d","a","t","a","@","a","t","l","a","s",".","c","o","m">>, base |-> 80, domain_in_text |-> TRUE],
      [text |-> <<"B","o","b"," ","(","a","t",")"," ","a","c","m","e",".","c","o","m">>, base |-> 75, domain_in_text |-> FALSE],
      [text |-> <<"a","n","n","@","a","c","m","e",".","c">>, base |-> 65, domain_in_text |-> FALSE] }

\* the patterns are tried in the order of their list: confidences never increase
EmailScans ==
    {ms \in SeqsUpTo(EmailMatchPool, MaxMatches) :
        \A i \in 1..(Len(ms) - 1) : ms[i].base >= ms[i + 1].base}

\* extract_countries: the domain, the countries the text names (by a name, by an
\* adjective) and the two-character words of the text, as they are written
CountryDomainPool == {<<"a","c","m","e",".","c","o","m">>, <<"w","w","w",".","a","c","m","e",".","D","E">>}
CountryMentionPool ==
    { [code |-> <<"D","E">>, names |-> TRUE, adjectives |-> TRUE],
      [code |-> <<"M","X">>, names |-> TRUE, adjectives |-> FALSE],
      [code |-> <<"S","G">>, names |-> FALSE, adjectives |-> TRUE],
      [code |-> <<"F","R">>, names |-> TRUE, adjectives |-> TRUE] }
CountryWordPool == {<<"D","E">>, <<"i","n">>, <<"Z","Z">>}
CountryScans ==
    {[domain |-> d, mentions |-> m, words |-> w] :
        d \in CountryDomainPool,
        m \in {x \in SUBSET CountryMentionPool : Cardinality(x) <= MaxMatches},
        w \in SeqsUpTo(CountryWordPool, MaxMatches - 1)}

\* extract_delete_links: the url a pattern captured in the lower-cased text, the
\* confidence of the pattern and its list; rank is the place of the pattern
DeleteLinkMatchPool ==
    { [url |-> <<"h","t","t","p","s",":","/","/","a","c","m","e",".","c","o","m","/","d","s","a","r">>, base |-> 95, kind |-> "section", rank |-> 1],
      [url |-> <<"w","w","w",".","a","c","m","e",".","c","o","m","/","f","o","r","m">>, base |-> 85, kind |-> "section", rank |-> 2],
      [url |-> <<"h","t","t","p","s",":","/","/","a","c","m","e",".","c","o","m","/","p","r","i","v","a","c","y">>, base |-> 70, kind |-> "section", rank |-> 3],
      [url |-> <<"h","t","t","p","s",":","/","/","a","c","m","e",".","c","o","m","/","h","e","l","p","?","x","=","d","a","t","a">>, base |-> 70, kind |-> "section", rank |-> 3],
      [url |-> <<"h","t","t","p","s",":","/","/","a","c","m","e",".","c","o","m","/","d","s","a","r">>, base |-> 90, kind |-> "button", rank |-> 4],
      [url |-> <<"h","t","t","p","s",":","/","/","a","c","m","e",".","c","o","m","/","h","e","l","p","?","x","=","d","a","t","a">>, base |-> 90, kind |-> "button", rank |-> 4] }
DeleteLinkScans ==
    {ms \in SeqsUpTo(DeleteLinkMatchPool, MaxMatches) :
        \A i \in 1..(Len(ms) - 1) : ms[i].rank <= ms[i + 1].rank}

\* the current_X argument, the same pool for the three fields
CurrentValues ==
    {NoValue} \cup {Some(v) : v \in {<<>>, <<"L","e","g","a","l","@","A","c","m","e",".","c","o","m">>, <<"d","e">>,
                                     <<"h","t","t","p","s",":","/","/","a","c","m","e",".","c","o","m","/","d","e","l","e","t","e">>, <<"u","n","k","n","o","w","n">>}}

\* what the oracle does: the call raises, or the model answers a text
LlmReplies ==
    {[kind |-> "raises"]}
    \cup {[kind |-> "text", text |-> t] :
            t \in {<<"N","o","n","e">>, <<" ","P","r","i","v","a","c","y","@","A","c","m","e",".","c","o","m","\n">>, <<"d","e">>, <<"h","t","t","p","s",":","/","/","a","c","m","e",".","c","o","m","/","d","s","a","r">>,
                   <<"n","o","t"," ","f","o","u","n","d">>}}

\* the oracle before it is asked
NotAsked == [kind |-> "idle"]

-----------------------------------------------------------------------------
(* FieldEnricher.extract_emails                                            *)

FreeMailPrefixes == {<<"g","m","a","i","l",".">>, <<"y","a","h","o","o",".">>, <<"o","u","t","l","o","o","k",".">>, <<"h","o","t","m","a","i","l",".">>}

\* extract_emails, lines 103-111
domain_confidence(dom, domain_in_text) ==
    IF \E d \in FreeMailPrefixes : StartsWith(dom, d) THEN [op |-> "-", by |-> 20]
    ELSE IF domain_in_text THEN [op |-> "+", by |-> 10]
    ELSE [op |-> "+", by |-> 0]

\* base_confidence + domain_confidence
plus_domain_confidence(base, dc) ==
    IF dc.op = "-" THEN FAdd(F(base), FSub(F(0), F(dc.by))) ELSE FAdd(F(base), F(dc.by))

\* extract_emails, line 113
email_confidence(base, dc) ==
    FMax(F(EmailFloor), FMin(F(EmailCap), plus_domain_confidence(base, dc)))

\* re.sub(r'\s*', '', s) at the start of s: what follows the leading whitespace
RECURSIVE SkipSpace(_)
SkipSpace(s) == IF Len(s) > 0 /\ s[1] \in Whitespace THEN SkipSpace(Tail(s)) ELSE s

\* re.sub(r'\s*(?:a|b|...)\s*', repl, s) for alternatives none of which begins with
\* whitespace or is a prefix of another: the matches are taken left to right, each
\* with the whitespace around it
RECURSIVE re_sub_spaced(_, _, _)
re_sub_spaced(s, alts, repl) ==
    IF s = <<>> THEN <<>>
    ELSE IF \E a \in alts : StartsWith(SkipSpace(s), a)
    THEN repl \o re_sub_spaced(
                     SkipSpace(From(SkipSpace(s),
                                    Len(CHOOSE a \in alts : StartsWith(SkipSpace(s), a)) + 1)),
                     alts, repl)
    ELSE <<s[1]>> \o re_sub_spaced(Tail(s), alts, repl)

\* extract_emails, line 97: the spellings of the sign that are replaced by "@"
at_spellings == {<<"a","t">>, <<"@">>, <<"(","a","t",")">>, <<"[","a","t","]">>, <<"&","#","x","4","0",";">>, <<"%","4","0">>}

\* extract_emails, lines 96-99: the matched text, cleaned up
clean_email(text) ==
    SelectSeq(re_sub_spaced(re_sub_spaced(Lower(text), at_spellings, <<"@">>),
                            {<<"d","o","t">>}, <<".">>),
              LAMBDA c : c \notin {"[", "]", "(", ")", "\\"})

\* line 96 alone: the matched text in lower case
clean_email_lower(text) == Lower(text)

\* the cleaned text of every match of the pool
CleanedOf == [t \in {m.text : m \in EmailMatchPool} |-> clean_email(t)]

\* extract_emails, lines 101-119: one match, email its cleaned text
email_found_unchecked(acc, m, email) ==
    Append(acc,
           ExtractionResult(email,
                            email_confidence(m.base,
                                             domain_confidence(LastField(email, "@"),
                                                               m.domain_in_text)),
                            "pattern"))
email_found(acc, m, email) ==
    IF ~is_valid_email(email) \/ \E i \in DOMAIN acc : acc[i].value = email
    THEN acc
    ELSE Append(acc,
                ExtractionResult(email,
                                 email_confidence(m.base,
                                                  domain_confidence(LastField(email, "@"),
                                                                    m.domain_in_text)),
                                 "pattern"))

\* extract_emails, lines 94-119: one match
email_match(acc, m) == email_found(acc, m, CleanedOf[m.text])

RECURSIVE email_matches_in(_, _)
email_matches_in(acc, ms) ==
    IF ms = <<>> THEN acc ELSE email_matches_in(email_match(acc, Head(ms)), Tail(ms))

\* FieldEnricher.extract_emails, for the matches of its patterns
extract_emails(ms) == sorted_by_confidence(email_matches_in(<<>>, ms))

-----------------------------------------------------------------------------
(* FieldEnricher.extract_countries                                         *)

\* the countries table, in the order of its keys: tld and confidence
Countries ==
    << [code |-> <<"U","S">>, tld |-> <<"u","s">>, confidence |-> 90],
       [code |-> <<"C","A">>, tld |-> <<"c","a">>, confidence |-> 90],
       [code |-> <<"M","X">>, tld |-> <<"m","x">>, confidence |-> 85],
       [code |-> <<"G","B">>, tld |-> <<"u","k">>, confidence |-> 90],
       [code |-> <<"D","E">>, tld |-> <<"d","e">>, confidence |-> 90],
       [code |-> <<"F","R">>, tld |-> <<"f","r">>, confidence |-> 90],
       [code |-> <<"E","S">>, tld |-> <<"e","s">>, confidence |-> 85],
       [code |-> <<"I","T">>, tld |-> <<"i","t">>, confidence |-> 85],
       [code |-> <<"J","P">>, tld |-> <<"j","p">>, confidence |-> 90],
       [code |-> <<"C","N">>, tld |-> <<"c","n">>, confidence |-> 90],
       [code |-> <<"I","N">>, tld |-> <<"i","n">>, confidence |-> 90],
       [code |-> <<"S","G">>, tld |-> <<"s","g">>, confidence |-> 85] >>

Seen(acc) == {acc[i].value : i \in DOMAIN acc}

\* extract_countries, lines 310-319: the TLD of the domain
RECURSIVE tld_matches(_, _)
tld_matches(tld, cs) ==
    IF cs = <<>> THEN <<>>
    ELSE (IF Head(cs).tld = tld
          THEN <<ExtractionResult(Head(cs).code, F(TldConfidence), "tld")>> ELSE <<>>)
         \o tld_matches(tld, Tail(cs))

\* extract_countries, lines 331-335
mention_confidence(c, m) ==
    IF m.names /\ m.adjectives THEN FAdd(F(c.confidence), F(5)) ELSE F(c.confidence)

\* extract_countries, lines 322-342: one country of the table
country_mention(acc, c, ms) ==
    IF c.code \in Seen(acc) THEN acc
    ELSE IF \E m \in ms : m.code = c.code /\ (m.names \/ m.adjectives)
    THEN Append(acc,
                ExtractionResult(c.code,
                                 FMin(F(CountryCap),
                                      mention_confidence(c, CHOOSE m \in ms : m.code = c.code)),
                                 "pattern"))
    ELSE acc

RECURSIVE country_mentions(_, _, _)
country_mentions(acc, cs, ms) ==
    IF cs = <<>> THEN acc
    ELSE country_mentions(country_mention(acc, Head(cs), ms), Tail(cs), ms)

\* extract_countries, line 346: the pattern [A-Z]{2} is searched in text.upper(), so
\* what it captures for a word of the text is the word in upper case
scanned_word(token) == Upper(token)

\* extract_countries, lines 345-354: one two-letter word of the text
country_word(acc, token) ==
    LET w == scanned_word(token)
    IN  IF /\ \E i \in DOMAIN Countries : Countries[i].code = w
           /\ w \notin Seen(acc)
           /\ is_valid_country_code(w)
        THEN Append(acc, ExtractionResult(w, F(CountryCodeConfidence), "pattern"))
        ELSE acc

RECURSIVE country_words(_, _)
country_words(acc, ws) ==
    IF ws = <<>> THEN acc ELSE country_words(country_word(acc, Head(ws)), Tail(ws))

\* FieldEnricher.extract_countries, for what its patterns find
extract_countries(scan) ==
    sorted_by_confidence(
        country_words(
            country_mentions(tld_matches(Lower(LastField(scan.domain, ".")), Countries),
                             Countries, scan.mentions),
            scan.words))

-----------------------------------------------------------------------------
(* FieldEnricher.extract_delete_links                                      *)

path_keywords ==
    { <<"p","r","i","v","a","c","y">>, <<"d","a","t","a">>, <<"d","e","l","e","t","e">>, <<"r","e","m","o","v","e">>, <<"e","r","a","s","u","r","e">>, <<"r","e","q","u","e","s","t">>, <<"a","c","c","e","s","s">>,
      <<"d","s","a","r">>, <<"g","d","p","r">>, <<"c","c","p","a">>, <<"r","i","g","h","t","s">>, <<"p","o","r","t","a","b","i","l","i","t","y">>, <<"d","o","w","n","l","o","a","d">>, <<"e","x","p","o","r","t">> }

\* extract_delete_links, lines 477-478 and 516-517
delete_link_url(url) ==
    IF is_http_link(url) THEN url ELSE <<"h","t","t","p","s",":","/","/">> \o LStrip(url, "/")

\* extract_delete_links, lines 486-499: url.lower().split('?')[0] and the keywords
delete_link_confidence(base, url) ==
    FMin(F(DeleteLinkCap),
         FAdd(F(base),
              IF ContainsAny(Upto(Lower(url), FirstOf(url, {"?"}) - 1), path_keywords)
              THEN FAdd(F(0), F(10)) ELSE F(0)))

\* extract_delete_links, lines 498 and 524: the confidence the pattern of match m
\* gives to url
tier_confidence(m, url) ==
    IF m.kind = "section" THEN delete_link_confidence(m.base, url) ELSE F(m.base)

\* extract_delete_links, lines 475-505 and 514-527: one match, its url normalised
delete_link_found(acc, m, url) ==
    IF url \in Seen(acc) THEN acc
    ELSE Append(acc, ExtractionResult(url, tier_confidence(m, url), "pattern"))

delete_link_match(acc, m) == delete_link_found(acc, m, delete_link_url(m.url))

RECURSIVE delete_link_matches(_, _)
delete_link_matches(acc, ms) ==
    IF ms = <<>> THEN acc
    ELSE delete_link_matches(delete_link_match(acc, Head(ms)), Tail(ms))

\* FieldEnricher.extract_delete_links, for the matches of its patterns
extract_delete_links(ms) == sorted_by_confidence(delete_link_matches(<<>>, ms))

-----------------------------------------------------------------------------
(* FieldEnricher.enrich_email, enrich_country, enrich_delete_link          *)

Fields == {"email", "country", "delete_link"}

\* the validator of a field
is_valid(fld, v) ==
    CASE fld = "email" -> is_valid_email(v)
      [] fld = "country" -> is_valid_country_code(v)
      [] fld = "delete_link" -> is_http_link(v)

\* enrich_email 189, enrich_country 423, enrich_delete_link 594: the current value is
\* there (not None, not empty) and valid
keeps_current_never(fld, cur) == FALSE
keeps_current(fld, cur) == ~cur.none /\ cur.value # <<>> /\ is_valid(fld, cur.value)

\* lines 190-194, 424-428, 595-599: the result made of the current value
current_result(fld, v) ==
    ExtractionResult(CASE fld = "email" -> Lower(v)
                       [] fld = "country" -> Upper(v)
                       [] fld = "delete_link" -> v,
                     F(CurrentConfidence), "fallback")

\* the acceptance threshold of a field: lines 201, 435, 606
threshold_certain(fld) == F(CurrentConfidence)
threshold(fld) ==
    CASE fld = "email" -> F(EmailThreshold)
      [] fld = "country" -> F(CountryThreshold)
      [] fld = "delete_link" -> F(DeleteLinkThreshold)

\* lines 201, 435, 606: the best pattern result is good enough
accepts_strict(fld, rs) == rs # <<>> /\ FGt(rs[1].confidence, threshold(fld))
accepts(fld, rs) == rs # <<>> /\ FGe(rs[1].confidence, threshold(fld))

\* lines 205, 439, 610: "use_llm_fallback and settings.enable_llm_fallback", where
\* Settings declares no enable_llm_fallback: the attribute is there only once
\* something has set it, and reading it otherwise raises AttributeError
fallback_check_or(use, flg) ==
    IF use THEN "yes"
    ELSE IF flg = "absent" THEN "raise"
    ELSE IF flg = "enabled" THEN "yes" ELSE "no"
fallback_check(use, flg) ==
    IF ~use THEN "no"
    ELSE IF flg = "absent" THEN "raise"
    ELSE IF flg = "enabled" THEN "yes" ELSE "no"

\* lines 211, 445, 616: the best available result or None
best_or_none(rs) == IF rs = <<>> THEN NoResult ELSE rs[1]

\* the except clause of enrich_X_with_llm, lines 168-170, 400-402, 573-575
llm_except_propagates(fld) == [raised |-> TRUE, result |-> NoResult]
llm_except(fld) == [raised |-> FALSE, result |-> NoResult]

Returned(r) == [raised |-> FALSE, result |-> r]

\* enrich_email_with_llm, lines 155-166, for the stripped answer
email_answer(email) ==
    IF Lower(email) = <<"n","o","n","e">> \/ ~is_valid_email(email) THEN NoResult
    ELSE ExtractionResult(Lower(email), F(EmailLlmConfidence), "llm")

\* FieldEnricher.enrich_email_with_llm
enrich_email_with_llm(reply) ==
    IF reply.kind = "raises" THEN llm_except("email")
    ELSE Returned(email_answer(Strip(reply.text)))

\* enrich_country_with_llm, lines 387-398, for the stripped, upper-cased answer
country_answer(country_code) ==
    IF country_code = <<"N","O","N","E">> \/ ~is_valid_country_code(country_code) THEN NoResult
    ELSE ExtractionResult(country_code, F(CountryLlmConfidence), "llm")

\* FieldEnricher.enrich_country_with_llm
enrich_country_with_llm(reply) ==
    IF reply.kind = "raises" THEN llm_except("country")
    ELSE Returned(country_answer(Upper(Strip(reply.text))))

\* enrich_delete_link_with_llm, lines 560-571, for the stripped answer
delete_link_answer(url) ==
    IF Lower(url) = <<"n","o","n","e">> \/ ~is_http_link(url) THEN NoResult
    ELSE ExtractionResult(url, F(DeleteLinkLlmConfidence), "llm")

\* FieldEnricher.enrich_delete_link_with_llm
enrich_delete_link_with_llm(reply) ==
    IF reply.kind = "raises" THEN llm_except("delete_link")
    ELSE Returned(delete_link_answer(Strip(reply.text)))

-----------------------------------------------------------------------------
(* enrich_X as a state machine: one call, from its entry to the await of   *)
(* the oracle, and from the answer of the oracle to its return             *)

NoDiscover ==
    /\ pc = "idle" /\ domain = <<>> /\ base_url = <<>> /\ methods = <<>> /\ idx = 1
    /\ override = EmptyMap /\ discovered = EmptyMap /\ policies = EmptyMap /\ todo = <<>>
    /\ kids = 0 /\ attempt = 0 /\ invocations = 0 /\ outcome = "none" /\ executed = <<>>
    /\ allowance = 0 /\ nested = 0
    /\ raisedIn = {} /\ seenMax = EmptyMap /\ retMax = EmptyMap /\ tied = {}

InitEnrich ==
    /\ epc = "called"
    /\ field \in Fields
    /\ current \in CurrentValues
    /\ use_llm \in BOOLEAN
    /\ flag \in {"absent", "enabled", "disabled"}
    /\ results = <<>>
    /\ llm = NotAsked
    /\ result = NoResult
    /\ eraised = FALSE
    /\ patternCalls = 0
    /\ llmCalls = 0
    /\ NoDiscover /\ NoCompany /\ NoExtract /\ NoRetry /\ NoPipeline

\* lines 189-195 (423-429, 594-600): the current value is returned at once
ReturnCurrent ==
    /\ result' = current_result(field, current.value)
    /\ epc' = "done"
    /\ UNCHANGED <<results, eraised, patternCalls, llmCalls>>

\* lines 197-211 (431-445, 602-616) up to the await: rs is what extract_X returned
AfterExtract(rs) ==
    /\ results' = rs
    /\ patternCalls' = patternCalls + 1
    /\ LET check == IF accepts(field, rs) THEN "accept" ELSE fallback_check(use_llm, flag)
       IN  /\ epc' = IF check = "yes" THEN "llm" ELSE "done"
           /\ llmCalls' = IF check = "yes" THEN llmCalls + 1 ELSE llmCalls
           /\ eraised' = (check = "raise")
           /\ result' = IF check = "accept" THEN rs[1]
                        ELSE IF check = "no" THEN best_or_none(rs)
                        ELSE result

\* FieldEnricher.enrich_email, from its entry
EnrichEmail ==
    /\ epc = "called" /\ field = "email"
    /\ IF keeps_current("email", current) THEN ReturnCurrent
       ELSE \E scan \in EmailScans : AfterExtract(extract_emails(scan))
    /\ UNCHANGED <<field, current, use_llm, flag, llm>>
    /\ UNCHANGED <<dvars, cvars, xvars, rvars, pvars>>

\* FieldEnricher.enrich_country, from its entry
EnrichCountry ==
    /\ epc = "called" /\ field = "country"
    /\ IF keeps_current("country", current) THEN ReturnCurrent
       ELSE \E scan \in CountryScans :
                \* enrich_company, line 680: the domain is that of the record
                /\ IF cpc = "idle" THEN TRUE ELSE Some(scan.domain) = company_data["domain"]
                /\ AfterExtract(extract_countries(scan))
    /\ UNCHANGED <<field, current, use_llm, flag, llm>>
    /\ UNCHANGED <<dvars, cvars, xvars, rvars, pvars>>

\* FieldEnricher.enrich_delete_link, from its entry
EnrichDeleteLink ==
    /\ epc = "called" /\ field = "delete_link"
    /\ IF keeps_current("delete_link", current) THEN ReturnCurrent
       ELSE \E scan \in DeleteLinkScans : AfterExtract(extract_delete_links(scan))
    /\ UNCHANGED <<field, current, use_llm, flag, llm>>
    /\ UNCHANGED <<dvars, cvars, xvars, rvars, pvars>>

\* lines 206-211 (440-445, 611-616): enrich_X_with_llm came back with r
AfterLlm(r) ==
    /\ eraised' = r.raised
    /\ result' = IF r.raised THEN result
                 ELSE IF r.result # NoResult THEN r.result
                 ELSE best_or_none(results)
    /\ epc' = "done"
    /\ UNCHANGED <<field, current, use_llm, flag, results, patternCalls, llmCalls>>
    /\ UNCHANGED <<dvars, cvars, xvars, rvars, pvars>>

\* enrich_email, lines 206-211, with enrich_email_with_llm
EmailLlm ==
    /\ epc = "llm" /\ field = "email"
    /\ \E reply \in LlmReplies : llm' = reply /\ AfterLlm(enrich_email_with_llm(reply))

\* enrich_country, lines 440-445, with enrich_country_with_llm
CountryLlm ==
    /\ epc = "llm" /\ field = "country"
    /\ \E reply \in LlmReplies : llm' = reply /\ AfterLlm(enrich_country_with_llm(reply))

\* enrich_delete_link, lines 611-616, with enrich_delete_link_with_llm
DeleteLinkLlm ==
    /\ epc = "llm" /\ field = "delete_link"
    /\ \E reply \in LlmReplies : llm' = reply /\ AfterLlm(enrich_delete_link_with_llm(reply))

NextEnrich ==
    \/ EnrichEmail
    \/ EnrichCountry
    \/ EnrichDeleteLink
    \/ EmailLlm
    \/ CountryLlm
    \/ DeleteLinkLlm

SpecEnrich == InitEnrich /\ [][NextEnrich]_vars

-----------------------------------------------------------------------------
(* Properties of enrich_X                                                  *)

\* C7: when the current value is present and passes the validator of the field, the
\* call returns at once a result of confidence 1.0 and source fallback, and neither
\* the pattern extraction nor the oracle is invoked in that call.
C7_ValidCurrentShortCircuits ==
    (~current.none /\ current.value # <<>> /\ is_valid(field, current.value)) =>
        /\ patternCalls = 0
        /\ llmCalls = 0
        /\ epc \in {"called", "done"}
        /\ epc = "done" =>
              /\ ~eraised
              /\ result # NoResult
              /\ result.confidence = F(100)
              /\ result.source = "fallback"

\* C7, its case: a call with a valid current value has returned, with the fallback
\* asked for and no feature flag set.
C7_Witness ==
    /\ epc = "done"
    /\ ~current.none /\ current.value # <<>> /\ is_valid(field, current.value)
    /\ use_llm
    /\ flag = "absent"

\* C8: the oracle is never invoked in a call where the best pattern result has a
\* confidence greater than or equal to the threshold of the field (0.80 email, 0.85
\* country, 0.80 delete link); the best pattern result itself is returned.
C8_AcceptedPatternSkipsLlm ==
    (/\ patternCalls = 1
     /\ results # <<>>
     /\ FGe(results[1].confidence,
            F(CASE field = "email" -> 80 [] field = "country" -> 85
                [] field = "delete_link" -> 80))) =>
        /\ llmCalls = 0
        /\ epc = "done"
        /\ ~eraised
        /\ result = results[1]

\* C8, its case: the best pattern result has exactly the confidence of the threshold,
\* the caller asked for the fallback and the feature flag is on.
C8_Witness ==
    /\ epc = "done"
    /\ patternCalls = 1
    /\ results # <<>>
    /\ results[1].confidence = threshold(field)
    /\ use_llm
    /\ flag = "enabled"

\* C9: the oracle is never invoked when the caller passes use_llm_fallback = false or
\* when the feature flag is disabled, whatever the pattern results are.
C9_NoLlmWhenDisabled ==
    (~use_llm \/ flag = "disabled") => (llmCalls = 0 /\ epc # "llm" /\ llm = NotAsked)

\* C9, its case: the extraction found nothing, the caller asked for the fallback, the
\* feature flag is disabled, and the call has returned.
C9_Witness ==
    /\ epc = "done"
    /\ patternCalls = 1
    /\ results = <<>>
    /\ use_llm
    /\ flag = "disabled"

\* C10: when the oracle is invoked and raises, answers "none", or gives an answer the
\* validator of the field refuses, the call raises nothing and returns the best pattern
\* result, or none when the extraction found nothing.
C10_LlmFailureFallsBack ==
    (/\ epc = "done"
     /\ llmCalls = 1
     /\ \/ llm.kind = "raises"
        \/ /\ llm.kind = "text"
           /\ \/ Lower(Strip(llm.text)) = <<"n","o","n","e">>
              \/ ~is_valid(field, Strip(llm.text))) =>
        /\ ~eraised
        /\ result = IF results = <<>> THEN NoResult ELSE results[1]

\* C10, its case: the oracle raised after an extraction whose best result was below
\* the threshold.
C10_Witness ==
    /\ epc = "done"
    /\ llmCalls = 1
    /\ llm.kind = "raises"
    /\ results # <<>>

-----------------------------------------------------------------------------
(* FieldEnricher.enrich_company, and the update of the Company row that    *)
(* _process_policy makes with what it returns.  enrich_company awaits      *)
(* enrich_email, enrich_country and enrich_delete_link in turn: each call  *)
(* runs the enrich_X machine above.  The timestamps of the metadata        *)
(* (datetime.utcnow) are left out of the entries.                          *)

AllKeys == {"domain", "email", "country", "delete_link"}

\* dict.get(key): None when the key is missing
Get(d, key) == IF key \in DOMAIN d THEN d[key] ELSE NoValue

\* the truth value Python gives an Optional[str]: neither None nor ''
Truthy(v) == ~v.none /\ v.value # <<>>

\* the Company rows of the model: domain, email, country, delete_link
CompanyRows ==
    { [domain |-> Some(<<"a","c","m","e",".","c","o","m">>), email |-> NoValue, country |-> NoValue,
       delete_link |-> NoValue],
      [domain |-> Some(<<"w","w","w",".","a","c","m","e",".","D","E">>), email |-> Some(<<"L","e","g","a","l","@","A","c","m","e",".","c","o","m">>),
       country |-> Some(<<"d","e">>), delete_link |-> Some(<<"h","t","t","p","s",":","/","/","a","c","m","e",".","c","o","m","/","d","e","l","e","t","e">>)],
      [domain |-> Some(<<"a","c","m","e",".","c","o","m">>), email |-> Some(<<"u","n","k","n","o","w","n">>),
       country |-> Some(<<"u","n","k","n","o","w","n">>), delete_link |-> Some(<<"u","n","k","n","o","w","n">>)],
      [domain |-> Some(<<"w","w","w",".","a","c","m","e",".","D","E">>), email |-> Some(<<>>), country |-> Some(<<"d","e">>),
       delete_link |-> NoValue] }

\* _process_policy, lines 300-305: the dict built from the row
pipeline_record(row) == [k \in AllKeys |-> row[k]]

\* d without the keys ks
Without(d, ks) == [k \in (DOMAIN d) \ ks |-> d[k]]

\* the company_data arguments for a row: the dict of the pipeline, the same without
\* its 'domain' key, and the same without the keys that hold None
CompanyRecords(row) ==
    { pipeline_record(row),
      Without(pipeline_record(row), {"domain"}),
      Without(pipeline_record(row), {k \in AllKeys : row[k].none}) }

\* settings.extract_emails, extract_country, extract_delete_link (all True by default)
SwitchConfigs ==
    { [email |-> TRUE, country |-> TRUE, delete_link |-> TRUE],
      [email |-> FALSE, country |-> TRUE, delete_link |-> FALSE] }

\* the order of the three blocks of enrich_company, and what follows each
FieldOrder == <<"email", "country", "delete_link">>
after_field(fld) ==
    CASE fld = "email" -> "country"
      [] fld = "country" -> "delete_link"
      [] fld = "delete_link" -> "attach"

\* lines 645, 676, 708: the condition under which the block of a field runs
runs_field(fld, sw, data) ==
    CASE fld = "email" -> sw.email
      [] fld = "country" -> sw.country /\ "domain" \in DOMAIN data
      [] fld = "delete_link" -> sw.delete_link

\* lines 655-660 (687-692, 718-723): the entry of a result
result_entry(r) ==
    [value |-> Some(r.value), confidence |-> r.confidence, source |-> r.source]
\* lines 663-667 (695-699, 726-730): the entry of the value the record holds
existing_entry(v) == [value |-> v, source |-> "existing"]
\* lines 670-673 (702-705, 733-736): the entry of an exception
error_entry == [error |-> TRUE]

\* the except clause of the block of a field, lines 668-673 (700-705, 731-736): the
\* exception is recorded, and the next block runs
field_except_reraise(fld) == "reraise"
field_except(fld) == "record"

\* lines 653-667 (685-699, 716-730): the metadata after enrich_X returned r
written_metadata(meta, data, fld, r) ==
    IF r # NoResult THEN Put(meta, fld, result_entry(r))
    ELSE IF fld \in DOMAIN data THEN Put(meta, fld, existing_entry(data[fld]))
    ELSE meta

\* lines 653-654 (685-686, 716-717): enriched after enrich_X returned r
written_value(enr, fld, r) == IF r # NoResult THEN Put(enr, fld, Some(r.value)) ELSE enr

\* _update_company_enrichment, lines 402-403 (406-407, 410-411): the column after the
\* update, given the value of enriched_fields.get(field)
update_field_always(column, new) == IF Truthy(new) THEN new ELSE column
update_field(column, new) == IF Truthy(new) /\ ~Truthy(column) THEN new ELSE column

\* _update_company_enrichment, lines 400-412
updated_row(row, enr) ==
    [k \in DOMAIN row |->
        IF k = "domain" THEN row[k] ELSE update_field(row[k], Get(enr, k))]

\* session.commit() of line 416: it succeeds, or raises and the except clause of lines
\* 419-421 rolls the row back
CommitOutcomes == {"committed", "raises"}

NoCall ==
    /\ epc = "idle" /\ field = "none" /\ current = NoValue /\ results = <<>>
    /\ llm = NotAsked /\ result = NoResult /\ eraised = FALSE
    /\ patternCalls = 0 /\ llmCalls = 0

InitCompany ==
    /\ cpc = "email"
    /\ company \in CompanyRows
    /\ company_data \in CompanyRecords(company)
    /\ switches \in SwitchConfigs
    /\ enriched = company_data
    /\ metadata = EmptyMap
    /\ attached = FALSE
    /\ failure = "none"
    /\ attempted = EmptyMap
    /\ use_llm \in BOOLEAN
    /\ flag \in {"absent", "enabled", "disabled"}
    /\ NoCall
    /\ NoDiscover /\ NoExtract /\ NoRetry /\ NoPipeline

\* lines 645-651 (676-683, 708-714): the block of fld is skipped, or enrich_X is called
BeginField(fld) ==
    /\ cpc = fld /\ epc = "idle"
    /\ IF runs_field(fld, switches, company_data)
       THEN /\ epc' = "called"
            /\ field' = fld
            /\ current' = Get(company_data, fld)
            /\ UNCHANGED cpc
       ELSE /\ cpc' = after_field(fld)
            /\ UNCHANGED <<epc, field, current>>
    /\ UNCHANGED <<results, llm, result, eraised, patternCalls, llmCalls, use_llm, flag>>
    /\ UNCHANGED <<company, company_data, switches, enriched, metadata, attached, failure,
                   attempted>>
    /\ UNCHANGED <<dvars, xvars, rvars, pvars>>

\* lines 653-673 (685-705, 716-736): enrich_X returned, or raised
EndField(fld) ==
    /\ cpc = fld /\ epc = "done" /\ field = fld
    /\ attempted' = Put(attempted, fld, [raised |-> eraised, result |-> result])
    /\ IF ~eraised
       THEN /\ enriched' = written_value(enriched, fld, result)
            /\ metadata' = written_metadata(metadata, company_data, fld, result)
            /\ cpc' = after_field(fld)
            /\ UNCHANGED failure
       ELSE IF field_except(fld) = "record"
       THEN /\ metadata' = Put(metadata, fld, error_entry)
            /\ cpc' = after_field(fld)
            /\ UNCHANGED <<enriched, failure>>
       ELSE \* lines 741-743: the except clause of the whole body
            /\ failure' = "_extraction_error"
            /\ cpc' = "returned"
            /\ UNCHANGED <<enriched, metadata>>
    /\ epc' = "idle" /\ field' = "none" /\ current' = NoValue /\ results' = <<>>
    /\ llm' = NotAsked /\ result' = NoResult /\ eraised' = FALSE
    /\ patternCalls' = 0 /\ llmCalls' = 0
    /\ UNCHANGED <<use_llm, flag, company, company_data, switches, attached>>
    /\ UNCHANGED <<dvars, xvars, rvars, pvars>>

\* enrich_company, lines 645-651
CompanyEmail == BeginField("email")
\* enrich_company, lines 653-673
CompanyEmailDone == EndField("email")
\* enrich_company, lines 676-683
CompanyCountry == BeginField("country")
\* enrich_company, lines 685-705
CompanyCountryDone == EndField("country")
\* enrich_company, lines 708-714
CompanyDeleteLink == BeginField("delete_link")
\* enrich_company, lines 716-736
CompanyDeleteLinkDone == EndField("delete_link")

\* enrich_company, lines 739 and 745
CompanyReturn ==
    /\ cpc = "attach"
    /\ attached' = TRUE
    /\ cpc' = "returned"
    /\ UNCHANGED <<company, company_data, switches, enriched, metadata, failure, attempted>>
    /\ UNCHANGED <<evars, dvars, xvars, rvars, pvars>>

\* _process_policy, line 308, and _update_company_enrichment, lines 399-421
UpdateCompanyEnrichment ==
    /\ cpc = "returned"
    /\ company_data = pipeline_record(company)
    /\ \E commit \in CommitOutcomes :
         company' = IF commit = "raises" THEN company ELSE updated_row(company, enriched)
    /\ cpc' = "updated"
    /\ UNCHANGED <<company_data, switches, enriched, metadata, attached, failure, attempted>>
    /\ UNCHANGED <<evars, dvars, xvars, rvars, pvars>>

NextCompany ==
    \/ CompanyEmail
    \/ EnrichEmail
    \/ EmailLlm
    \/ CompanyEmailDone
    \/ CompanyCountry
    \/ EnrichCountry
    \/ CountryLlm
    \/ CompanyCountryDone
    \/ CompanyDeleteLink
    \/ EnrichDeleteLink
    \/ DeleteLinkLlm
    \/ CompanyDeleteLinkDone
    \/ CompanyReturn
    \/ UpdateCompanyEnrichment

SpecCompany == InitCompany /\ [][NextCompany]_vars

\* enrich_company has returned (and the row may have been updated since)
CompanyReturned == cpc \in {"returned", "updated"}

\* the fields whose enrich_X call raised
raised_fields == {f \in DOMAIN attempted : attempted[f].raised}

\* what enrich_company wrote for a field whose enrich_X call returned r
written(fld) ==
    /\ fld \in DOMAIN attempted
    /\ attempted[fld].result # NoResult =>
         /\ Get(enriched, fld) = Some(attempted[fld].result.value)
         /\ Get(metadata, fld) = result_entry(attempted[fld].result)

\* the error entries of the metadata are those of the fields that raised, enrich_company
\* returns the record with its metadata, and every field of fs that did not raise was
\* attempted and its result written
errors_contained(fs) ==
    /\ failure = "none"
    /\ attached
    /\ \A f \in Fields : (Get(metadata, f) = error_entry) <=> (f \in raised_fields)
    /\ \A g \in fs \ raised_fields : written(g)

\* C11: when enrich_company has returned, the fields whose enrichment raised are exactly
\* those whose metadata holds an error entry, every other field whose block runs (its
\* setting is on and, for the country, the record has a 'domain' key) was attempted and
\* its result written, and enrich_company raised nothing and returned the record with
\* its metadata.
C11_FieldErrorIsContained ==
    CompanyReturned =>
        errors_contained({g \in Fields : runs_field(g, switches, company_data)})

\* the email enrichment raised, its metadata holds the error entry, and the country was
\* enriched after it with a result that was written
C11_Witness ==
    /\ CompanyReturned
    /\ "email" \in raised_fields
    /\ Get(metadata, "email") = error_entry
    /\ "country" \in DOMAIN attempted
    /\ ~attempted["country"].raised
    /\ attempted["country"].result # NoResult
    /\ Get(enriched, "country") = Some(attempted["country"].result.value)

\* C12: after enrich_company and _update_company_enrichment, every field of the stored
\* company that held a non-empty value before the step (the value the pipeline copied
\* into company_data) holds the same value.
C12_StoredValuesKept ==
    cpc = "updated" =>
        \A f \in Fields : Truthy(company_data[f]) => company[f] = company_data[f]

\* the enrichment found another value for a field the row already filled, the update
\* ran, and the row holds the value it held
C12_Witness ==
    /\ cpc = "updated"
    /\ \E f \in Fields :
         /\ Truthy(company_data[f])
         /\ Truthy(Get(enriched, f))
         /\ enriched[f] # company_data[f]
         /\ company[f] = company_data[f]
    /\ \E g \in Fields : company[g] # company_data[g]

\* C13: when enrich_company has returned, the metadata holds an entry for every field
\* whose setting is on and for which the input record holds a value, whether or not
\* the record has a 'domain' key.
C13_MetadataForEveryHeldField ==
    CompanyReturned =>
        \A f \in Fields :
            switches[f] /\ f \in DOMAIN company_data /\ ~company_data[f].none
                => f \in DOMAIN metadata

-----------------------------------------------------------------------------
(* The extractors, the scoring of a sitemap candidate and the parsing of   *)
(* an LLM answer, each called once on an input of its pool.                *)

\* the arguments _discover_via_sitemap gives _score_policy_candidate
ScoreInputs ==
    {[url |-> u, doc_type |-> d, base_confidence |-> F(SitemapBase)] :
        u \in LocPool, d \in DocTypes}

Extractors == {"extract_emails", "extract_countries", "extract_delete_links"}
LlmParsers ==
    {"enrich_email_with_llm", "enrich_country_with_llm", "enrich_delete_link_with_llm"}

\* the result of enrich_X_with_llm as a list: empty for None
llm_results(r) == IF r.raised \/ r.result = NoResult THEN <<>> ELSE <<r.result>>

InitExtract ==
    /\ xpc = "called"
    /\ \/ xinput \in {[fn |-> "extract_emails", arg |-> s] : s \in EmailScans}
       \/ xinput \in {[fn |-> "extract_countries", arg |-> s] : s \in CountryScans}
       \/ xinput \in {[fn |-> "extract_delete_links", arg |-> s] : s \in DeleteLinkScans}
       \/ xinput \in {[fn |-> "_score_policy_candidate", arg |-> s] : s \in ScoreInputs}
       \/ xinput \in {[fn |-> f, arg |-> s] : f \in LlmParsers, s \in LlmReplies}
    /\ xfound = <<>>
    /\ xout = <<>>
    /\ NoDiscover /\ NoEnrich /\ NoCompany /\ NoRetry /\ NoPipeline

\* fn returns: found is its results list before the sort, out what it returns
Extracted(fn, found, out) ==
    /\ xpc = "called" /\ xinput.fn = fn
    /\ xfound' = found
    /\ xout' = out
    /\ xpc' = "returned"
    /\ UNCHANGED xinput
    /\ UNCHANGED <<dvars, evars, cvars, rvars, pvars>>

\* FieldEnricher.extract_emails
ExtractEmails ==
    Extracted("extract_emails", email_matches_in(<<>>, xinput.arg),
              extract_emails(xinput.arg))

\* FieldEnricher.extract_countries
ExtractCountries ==
    Extracted("extract_countries",
              country_words(
                  country_mentions(
                      tld_matches(Lower(LastField(xinput.arg.domain, ".")), Countries),
                      Countries, xinput.arg.mentions),
                  xinput.arg.words),
              extract_countries(xinput.arg))

\* FieldEnricher.extract_delete_links
ExtractDeleteLinks ==
    Extracted("extract_delete_links", delete_link_matches(<<>>, xinput.arg),
              extract_delete_links(xinput.arg))

\* PolicyDiscovery._score_policy_candidate: the score, as the confidence of one result
ScorePolicyCandidate ==
    Extracted("_score_policy_candidate", <<>>,
              <<ExtractionResult(xinput.arg.url,
                                 score_policy_candidate(xinput.arg.url, xinput.arg.doc_type,
                                                        xinput.arg.base_confidence),
                                 "sitemap")>>)

\* FieldEnricher.enrich_email_with_llm
EmailWithLlm ==
    Extracted("enrich_email_with_llm", <<>>, llm_results(enrich_email_with_llm(xinput.arg)))

\* FieldEnricher.enrich_country_with_llm
CountryWithLlm ==
    Extracted("enrich_country_with_llm", <<>>,
              llm_results(enrich_country_with_llm(xinput.arg)))

\* FieldEnricher.enrich_delete_link_with_llm
DeleteLinkWithLlm ==
    Extracted("enrich_delete_link_with_llm", <<>>,
              llm_results(enrich_delete_link_with_llm(xinput.arg)))

NextExtract ==
    \/ ExtractEmails
    \/ ExtractCountries
    \/ ExtractDeleteLinks
    \/ ScorePolicyCandidate
    \/ EmailWithLlm
    \/ CountryWithLlm
    \/ DeleteLinkWithLlm

SpecExtract == InitExtract /\ [][NextExtract]_vars

\* fn has returned
HasReturned(fn) == xpc = "returned" /\ xinput.fn = fn

\* C14: the list extract_emails returns holds no two results with the same (cleaned,
\* lower-cased) address, and every value of it passes is_valid_email.
C14_EmailsDistinctAndValid ==
    HasReturned("extract_emails") =>
        /\ \A i, j \in DOMAIN xout : xout[i].value = xout[j].value => i = j
        /\ \A i \in DOMAIN xout : is_valid_email(xout[i].value)

\* the patterns matched an address twice and an invalid address, and extract_emails
\* returned the first once
C14_Witness ==
    /\ HasReturned("extract_emails")
    /\ Len(xinput.arg) = 2
    /\ \/ CleanedOf[xinput.arg[1].text] = CleanedOf[xinput.arg[2].text]
       \/ ~is_valid_email(CleanedOf[xinput.arg[2].text])
    /\ Len(xout) = 1

\* the place of the result r in the list rs
place(rs, r) == CHOOSE p \in DOMAIN rs : rs[p] = r

\* C15: the list an extractor returns holds the results it found, by decreasing
\* confidence, and two results of equal confidence stand in the order in which they
\* were found.
C15_SortedAndStable ==
    xpc = "returned" /\ xinput.fn \in Extractors =>
        /\ Len(xout) = Len(xfound)
        /\ \A p \in DOMAIN xfound : \E i \in DOMAIN xout : xout[i] = xfound[p]
        /\ \A i, j \in DOMAIN xout :
             i < j =>
                /\ FGe(xout[i].confidence, xout[j].confidence)
                /\ xout[i].confidence = xout[j].confidence
                     => place(xfound, xout[i]) < place(xfound, xout[j])

\* extract_countries found two countries with equal confidences, and returned them in
\* the order in which it found them, after a result of higher confidence
C15_Witness ==
    /\ HasReturned("extract_countries")
    /\ Len(xout) = 3
    /\ \E i \in DOMAIN xout :
         /\ i + 1 \in DOMAIN xout
         /\ xout[i].confidence = xout[i + 1].confidence
         /\ xout[i].value # xout[i + 1].value

\* the countries of the table whose tld is that of the domain
tld_countries(dom) ==
    {Countries[i].code : i \in {k \in DOMAIN Countries :
                                   Countries[k].tld = Lower(LastField(dom, "."))}}

\* C16: when the tld of the domain is in the countries table, the first result
\* extract_countries returns is the country of the tld, tagged tld, with confidence
\* 0.95, whatever the text mentions.
C16_TldCountryIsTop ==
    HasReturned("extract_countries") /\ tld_countries(xinput.arg.domain) # {} =>
        /\ xout # <<>>
        /\ xout[1].value \in tld_countries(xinput.arg.domain)
        /\ xout[1].source = "tld"
        /\ xout[1].confidence = F(TldConfidence)

\* C17: every result of extract_emails, extract_countries, extract_delete_links, of
\* _score_policy_candidate and of the parsing of an LLM answer has a confidence of at
\* least 0.1 and at most 0.99.
C17_ConfidenceWithinScoringRange ==
    xpc = "returned" =>
        \A i \in DOMAIN xout :
            /\ FGe(xout[i].confidence, F(EmailFloor))
            /\ FLe(xout[i].confidence, F(ScoreCap))

-----------------------------------------------------------------------------
(* utils.retry: the wrapper around one call of a decorated function.  func *)
(* returns, or raises an Exception (what the except clause of line 90      *)
(* catches); delays are in seconds.                                        *)

MaxAttempts == 3   \* the greatest max_attempts of a decorator
MaxDelay == 2      \* the greatest delay of a decorator
MaxBackoff == 2    \* the greatest backoff of a decorator

\* what one call of func does
FuncOutcomes == {"returned", "raised"}

\* line 87: the condition of the while loop
loop_continues(n, most) == n < most

\* line 92: no attempt is left after the n-th failure
attempts_exhausted_after(n, most) == n > most
attempts_exhausted(n, most) == n >= most

\* line 101: current_delay *= backoff
next_delay_same(cur, factor) == cur
next_delay(cur, factor) == cur * factor

InitRetry ==
    /\ rpc = "loop"
    /\ max_attempts \in 0..MaxAttempts
    /\ delay \in 0..MaxDelay
    /\ backoff \in 1..MaxBackoff
    /\ call = [attempt |-> 0, current_delay |-> delay]
    /\ invoked = <<>>
    /\ slept = <<>>
    /\ ended = <<>>
    /\ NoDiscover /\ NoEnrich /\ NoCompany /\ NoExtract /\ NoPipeline

\* lines 87-94: one turn of the loop, up to the return, the raise or the sleep
RetryAttempt ==
    /\ rpc = "loop"
    /\ loop_continues(call.attempt, max_attempts)
    /\ \E o \in FuncOutcomes :
         /\ invoked' = Append(invoked, o)
         /\ IF o = "returned"
            THEN /\ ended' = [kind |-> "returned", of |-> Len(invoked) + 1]
                 /\ rpc' = "done"
                 /\ UNCHANGED call
            ELSE /\ call' = [call EXCEPT !.attempt = @ + 1]
                 /\ IF attempts_exhausted(call.attempt + 1, max_attempts)
                    THEN /\ ended' = [kind |-> "raised", of |-> Len(invoked) + 1]
                         /\ rpc' = "done"
                    ELSE /\ rpc' = "sleeping"
                         /\ UNCHANGED ended
    /\ UNCHANGED <<max_attempts, delay, backoff, slept>>
    /\ UNCHANGED <<dvars, evars, cvars, xvars, pvars>>

\* lines 100-101: time.sleep(current_delay) and the next delay
RetrySleep ==
    /\ rpc = "sleeping"
    /\ slept' = Append(slept, call.current_delay)
    /\ call' = [call EXCEPT !.current_delay = next_delay(@, backoff)]
    /\ rpc' = "loop"
    /\ UNCHANGED <<max_attempts, delay, backoff, invoked, ended>>
    /\ UNCHANGED <<dvars, evars, cvars, xvars, pvars>>

\* line 87: the loop ends, and wrapper returns None
RetryLoopEnds ==
    /\ rpc = "loop"
    /\ ~loop_continues(call.attempt, max_attempts)
    /\ ended' = [kind |-> "none", of |-> 0]
    /\ rpc' = "done"
    /\ UNCHANGED <<max_attempts, delay, backoff, call, invoked, slept>>
    /\ UNCHANGED <<dvars, evars, cvars, xvars, pvars>>

NextRetry ==
    \/ RetryAttempt
    \/ RetrySleep
    \/ RetryLoopEnds

SpecRetry == InitRetry /\ [][NextRetry]_vars

\* C18: func is invoked at most max_attempts times and never again after it returned;
\* when wrapper ends, either the last invocation returned and its result is returned,
\* or max_attempts is at least 1, func was invoked exactly max_attempts times, every
\* invocation raised and the exception of the last one is raised, or max_attempts is 0
\* and func was not invoked.
C18_RetryContract ==
    /\ Len(invoked) <= max_attempts
    /\ \A i \in 1..(Len(invoked) - 1) : invoked[i] = "raised"
    /\ rpc = "done" =>
         \/ /\ ended.kind = "returned"
            /\ invoked # <<>> /\ invoked[Len(invoked)] = "returned"
            /\ ended.of = Len(invoked)
         \/ /\ ended.kind = "raised"
            /\ max_attempts >= 1 /\ Len(invoked) = max_attempts
            /\ \A i \in DOMAIN invoked : invoked[i] = "raised"
            /\ ended.of = max_attempts
         \/ /\ ended.kind = "none"
            /\ max_attempts = 0 /\ invoked = <<>>

\* every one of three attempts raised: wrapper slept twice and raised the exception of
\* the third
C18_Witness ==
    /\ rpc = "done"
    /\ max_attempts = 3
    /\ invoked = <<"raised", "raised", "raised">>
    /\ Len(slept) = 2
    /\ ended = [kind |-> "raised", of |-> 3]

-----------------------------------------------------------------------------
(* MultiPhasePipeline._process_company from the gather of line 170: the    *)
(* _process_policy coroutines of one company on one event loop.  The loop  *)
(* runs one task at a time, from one await to the next; running is the     *)
(* task that holds its thread, 0 when the loop is free to pick a task.     *)

MaxTasks == 2            \* the policies discovered for one company
scrape_max_attempts == 3 \* @retry(max_attempts=3, ...) of Scraper.scrape

TaskIds == 1..Len(tasks)

\* a task has run to its end: it returned, raised, or was cancelled
finished(task) == task.pc \in {"returned", "raised", "cancelled"}

\* asyncio.gather(*tasks, return_exceptions=True), line 170, when a task raised: the
\* exception is put in the list of results ("collect"); with return_exceptions=False
\* it is raised from the await at once
gather_propagates == "propagate"
gather_on_exception == "collect"

InitPipeline ==
    /\ tasks \in {[t \in 1..n |-> [pc |-> "ready", attempt |-> 0, met |-> FALSE]] :
                    n \in 1..MaxTasks}
    /\ running = 0
    /\ gathered = "pending"
    /\ NoBatch /\ NoWriters
    /\ NoDiscover /\ NoEnrich /\ NoCompany /\ NoExtract /\ NoRetry

PipelineFrame == UNCHANGED <<dvars, evars, cvars, xvars, rvars, bvars, wvars>>

\* the task t moves to pc
Goto(t, pc2) == tasks' = [tasks EXCEPT ![t].pc = pc2]

\* the event loop starts a task gather scheduled: _process_policy, lines 228-235
TaskStart(t) ==
    /\ running = 0 /\ tasks[t].pc = "ready"
    /\ running' = t
    /\ Goto(t, "scrape")
    /\ UNCHANGED gathered /\ PipelineFrame

\* _process_policy, lines 235-238, with one turn of the loop of retry (utils.py lines
\* 87-94) around Scraper.scrape: the attempt returns a page, returns None, or raises
ScrapeAttempt(t) ==
    /\ running = t /\ tasks[t].pc = "scrape"
    /\ loop_continues(tasks[t].attempt, scrape_max_attempts)
    /\ \E o \in {"page", "none", "raised"} :
         CASE o = "page" -> Goto(t, "scraped") /\ UNCHANGED running
           [] o = "none" -> Goto(t, "returned") /\ running' = 0
           [] o = "raised" ->
                IF attempts_exhausted(tasks[t].attempt + 1, scrape_max_attempts)
                THEN \* main.py, lines 313-317: the exception leaves the task
                     /\ tasks' = [tasks EXCEPT ![t].pc = "raised", ![t].attempt = @ + 1]
                     /\ running' = 0
                ELSE \* utils.py, line 100: time.sleep on the thread of the loop
                     /\ tasks' = [tasks EXCEPT ![t].pc = "sleeping", ![t].attempt = @ + 1]
                     /\ UNCHANGED running
    /\ UNCHANGED gathered /\ PipelineFrame

\* utils.py, lines 100-101: time.sleep returns, and the loop of retry goes on
ScrapeWake(t) ==
    /\ running = t /\ tasks[t].pc = "sleeping"
    /\ Goto(t, "scrape")
    /\ UNCHANGED <<running, gathered>> /\ PipelineFrame

\* _process_policy, lines 240-299: the record is stored and the chunks embedded, up to
\* the first await, where the task gives the thread back; or a statement raises
ProcessScraped(t) ==
    /\ running = t /\ tasks[t].pc = "scraped"
    /\ \E o \in {"awaits", "raises"} :
         Goto(t, IF o = "awaits" THEN "awaiting" ELSE "raised")
    /\ running' = 0
    /\ UNCHANGED gathered /\ PipelineFrame

\* the event loop resumes a task whose await is over; met records that another task
\* had raised by then
TaskResume(t) ==
    /\ running = 0 /\ tasks[t].pc = "awaiting"
    /\ running' = t
    /\ tasks' = [tasks EXCEPT ![t].pc = "resumed",
                              ![t].met = \E u \in TaskIds : tasks[u].pc = "raised"]
    /\ UNCHANGED gathered /\ PipelineFrame

\* _process_policy, lines 308-319: the rest of the coroutine; it returns, or a
\* statement raises and the except clause of lines 313-317 raises again
TaskEnd(t) ==
    /\ running = t /\ tasks[t].pc = "resumed"
    /\ \E o \in {"returned", "raised"} : Goto(t, o)
    /\ running' = 0
    /\ UNCHANGED gathered /\ PipelineFrame

\* _process_company, line 170: the await of gather ends
Gather ==
    /\ running = 0 /\ gathered = "pending"
    /\ IF gather_on_exception = "propagate" /\ \E t \in TaskIds : tasks[t].pc = "raised"
       THEN \* the exception leaves _process_company (lines 176-180) with the other
            \* tasks unfinished: they are cancelled when the loop is closed
            /\ gathered' = "raised"
            /\ tasks' = [t \in TaskIds |->
                            IF finished(tasks[t]) THEN tasks[t]
                            ELSE [tasks[t] EXCEPT !.pc = "cancelled"]]
       ELSE /\ \A t \in TaskIds : finished(tasks[t])
            /\ gathered' = "returned"
            /\ UNCHANGED tasks
    /\ UNCHANGED running /\ PipelineFrame

\* the steps of the event loop, for any task
StartTask == \E t \in TaskIds : TaskStart(t)
AttemptScrape == \E t \in TaskIds : ScrapeAttempt(t)
WakeScrape == \E t \in TaskIds : ScrapeWake(t)
ProcessTask == \E t \in TaskIds : ProcessScraped(t)
ResumeTask == \E t \in TaskIds : TaskResume(t)
EndTask == \E t \in TaskIds : TaskEnd(t)

NextPipeline ==
    \/ StartTask
    \/ AttemptScrape
    \/ WakeScrape
    \/ ProcessTask
    \/ ResumeTask
    \/ EndTask
    \/ Gather

SpecPipeline == InitPipeline /\ [][NextPipeline]_vars

\* the event loop can run the task u now
can_run(u) == ENABLED (TaskStart(u) \/ TaskResume(u))

C20_TaskExceptionsAreCollected ==
    /\ gathered # "raised"
    /\ \A t \in TaskIds : tasks[t].pc # "cancelled"
    /\ gathered = "returned" => \A t \in TaskIds : tasks[t].pc \in {"returned", "raised"}

\* the first task raised while the second waited at its await; the second then ran to
\* its return, and gather returned
C20_Witness ==
    /\ gathered = "returned"
    /\ Len(tasks) = 2
    /\ tasks[1].pc = "raised"
    /\ tasks[2].pc = "returned"
    /\ tasks[2].met

-----------------------------------------------------------------------------
(* PolicyProcessingPipeline.process_companies                              *)
(*                                                                         *)
(* One run of process_all (main.py lines 74-93): the rows of the CSV file, *)
(* the optional filter, then _process_company for each company in turn.    *)
(* What discover, _store_company and the progress tracker do is drawn for  *)
(* every company.                                                          *)

MaxCompanies == 3   \* rows of the CSV file

\* the domain column of the rows
CsvDomains == {<<"a","c","m","e",".","c","o","m">>, <<"a","t","l","a","s",".","c","o","m">>}

\* ProgressTracker.update(self, increment=1): the positional arguments it accepts
update_parameters == 1

\* progress.update(...) with nargs positional arguments raises TypeError
update_raises(nargs) == nargs > update_parameters

\* main.py lines 76-77: if domains: companies = [c for c in companies if ...]
filtered(cs, only) ==
    IF only.none \/ only.value = {} THEN cs
    ELSE SelectSeq(cs, LAMBDA c : c \in only.value)

\* main.py lines 87-90: what the except clause of the loop does with the exception of
\* one company: "continue" with the next one; "raise" would end the run
on_company_error_raise == "raise"
on_company_error == "continue"

InitBatch ==
    /\ bpc = "called"
    /\ rows \in SeqsUpTo(CsvDomains, MaxCompanies)
    /\ domains \in {NoValue} \cup {Some(d) : d \in SUBSET CsvDomains}
    /\ companies = <<>>
    /\ position = 0
    /\ entered = <<>>
    /\ exc = <<>>
    /\ caught = <<>>
    /\ tracker = 0
    /\ NoTasks /\ NoWriters
    /\ NoDiscover /\ NoEnrich /\ NoCompany /\ NoExtract /\ NoRetry

BatchFrame ==
    UNCHANGED <<dvars, evars, cvars, xvars, rvars, tasks, running, gathered, wvars>>

\* process_all, lines 75-81: the companies are loaded and filtered
LoadCompanies ==
    /\ bpc = "called"
    /\ companies' = filtered(rows, domains)
    /\ position' = 1
    /\ bpc' = "loop"
    /\ UNCHANGED <<rows, domains, entered, exc, caught, tracker>> /\ BatchFrame

\* process_all, lines 84-86, and _process_company, lines 137-138: the next turn of the
\* loop calls _process_company
CompanyStart ==
    /\ bpc = "loop" /\ position <= Len(companies)
    /\ entered' = Append(entered, companies[position])
    /\ exc' = <<>>
    /\ bpc' = "discover"
    /\ UNCHANGED <<rows, domains, companies, position, caught, tracker>> /\ BatchFrame

\* _process_company, lines 140-149: discover returns policies, returns nothing (and
\* the company is reported to the tracker), or raises
CompanyDiscover ==
    /\ bpc = "discover"
    /\ \E o \in {"policies", "empty", "raises"} :
         CASE o = "policies" -> bpc' = "store" /\ UNCHANGED exc
           [] o = "empty" ->
                IF update_raises(2) THEN bpc' = "except" /\ exc' = <<"TypeError">>
                ELSE bpc' = "leave" /\ UNCHANGED exc
           [] o = "raises" -> bpc' = "except" /\ exc' = <<"discover">>
    /\ UNCHANGED <<rows, domains, companies, position, entered, caught, tracker>>
    /\ BatchFrame

\* _process_company, line 154: _store_company returns the row, or rolls back and raises
CompanyStore ==
    /\ bpc = "store"
    /\ \E o \in {"stored", "raises"} :
         IF o = "stored" THEN bpc' = "gather" /\ UNCHANGED exc
         ELSE bpc' = "except" /\ exc' = <<"store">>
    /\ UNCHANGED <<rows, domains, companies, position, entered, caught, tracker>>
    /\ BatchFrame

\* _process_company, lines 157-174: the policy tasks are gathered with
\* return_exceptions=True, and the company is reported to the tracker
CompanyGather ==
    /\ bpc = "gather"
    /\ IF update_raises(2) THEN bpc' = "except" /\ exc' = <<"TypeError">>
       ELSE bpc' = "leave" /\ UNCHANGED exc
    /\ UNCHANGED <<rows, domains, companies, position, entered, caught, tracker>>
    /\ BatchFrame

\* _process_company, lines 176-180: the except clause logs, reports to the tracker and
\* raises again; a TypeError of that report takes the place of the exception
CompanyExcept ==
    /\ bpc = "except"
    /\ exc' = IF update_raises(2) THEN Append(exc, "TypeError") ELSE exc
    /\ bpc' = "leave"
    /\ UNCHANGED <<rows, domains, companies, position, entered, caught, tracker>>
    /\ BatchFrame

\* process_all, lines 85-90: _process_company is left; an exception is caught by the
\* except clause of the loop, which logs it, updates the tracker and continues
CompanyLeave ==
    /\ bpc = "leave"
    /\ IF exc = <<>>
       THEN bpc' = "loop" /\ position' = position + 1 /\ UNCHANGED <<caught, tracker>>
       ELSE IF on_company_error = "continue"
       THEN /\ caught' = Append(caught, exc)
            /\ tracker' = IF update_raises(1) THEN tracker ELSE tracker + 1
            /\ bpc' = IF update_raises(1) THEN "aborted" ELSE "loop"
            /\ position' = position + 1
       ELSE bpc' = "aborted" /\ UNCHANGED <<position, caught, tracker>>
    /\ exc' = <<>>
    /\ UNCHANGED <<rows, domains, companies, entered>> /\ BatchFrame

\* process_all, lines 92-93: after the last company
BatchFinish ==
    /\ bpc = "loop" /\ position > Len(companies)
    /\ bpc' = "finished"
    /\ UNCHANGED <<rows, domains, companies, position, entered, exc, caught, tracker>>
    /\ BatchFrame

NextBatch ==
    \/ LoadCompanies
    \/ CompanyStart
    \/ CompanyDiscover
    \/ CompanyStore
    \/ CompanyGather
    \/ CompanyExcept
    \/ CompanyLeave
    \/ BatchFinish

\* asyncio.run(process_all()), line 96, runs the coroutine until it is complete
SpecBatch == InitBatch /\ [][NextBatch]_vars /\ WF_vars(NextBatch)

\* the companies entered so far are the first of the list, in its order, and the run
\* was not ended by the exception of a company
in_input_order ==
    /\ bpc # "aborted"
    /\ Len(entered) <= Len(companies)
    /\ entered = SubSeq(companies, 1, Len(entered))
    /\ bpc = "finished" => entered = companies

\* C21: process_companies calls _process_company for the companies one at a time in
\* the order of the input; an exception that leaves _process_company is caught by the
\* loop, every later company is still processed, and the run reaches its end.
C21_FailureDoesNotStopRun ==
    /\ []in_input_order
    /\ <>(bpc = "finished")

\* the first of three companies failed in _store_company, and the run went on to its
\* end over the two others
C21_Witness ==
    /\ bpc = "finished"
    /\ Len(companies) = 3 /\ entered = companies
    /\ Len(caught) = 3
    /\ caught[1] = <<"store", "TypeError">>

-----------------------------------------------------------------------------
(* The policy tasks of one company: enrich_company, then the update        *)
(*                                                                         *)
(* _process_company gathers one _process_policy coroutine for each policy  *)
(* (main.py lines 157-170).  In fast_ingest mode each of them builds a     *)
(* dict from the Company object, awaits enrich_company (lines 298-306) and *)
(* calls _update_company_enrichment (line 307), which has no await.  The   *)
(* tasks share the Company object and the session.                         *)

EnrichedColumns == {"email", "country", "delete_link"}

\* what the policy texts can give enrich_company for a column that holds nothing
FoundPool ==
    [k \in EnrichedColumns |->
        CASE k = "email" -> {<<"p","r","i","v","a","c","y","@","a","c","m","e",".","c","o","m">>, <<"i","n","f","o","@","a","c","m","e",".","c","o","m">>}
          [] k = "country" -> {<<"D","E">>}
          [] k = "delete_link" -> {<<"h","t","t","p","s",":","/","/","a","c","m","e",".","c","o","m","/","d","s","a","r">>}]

\* enrich_company, lines 631-735: the keys of the dict it returns, for the dict it
\* was given: a held value stays, an empty one stays or gets a value of the text
EnrichedFor(data) ==
    {e \in [AllKeys -> {data[k] : k \in AllKeys}
                        \cup {Some(v) : v \in UNION {FoundPool[k] : k \in EnrichedColumns}}] :
        \A k \in AllKeys :
            \/ e[k] = data[k]
            \/ k \in EnrichedColumns /\ ~Truthy(data[k]) /\ ~e[k].none
                 /\ e[k].value \in FoundPool[k]}

\* _update_company_enrichment, lines 402, 406, 410: `not company.X` reads the Company
\* object the tasks share, at the time of the update, not the dict of the task
checked_column_of_dict(live, data, k) == data[k]
checked_column(live, data, k) == live[k]

\* _update_company_enrichment, lines 400-412, called by a task that gave data to
\* enrich_company and got enr
task_update(live, data, enr) ==
    [k \in DOMAIN live |->
        IF k # "domain" /\ Truthy(Get(enr, k)) /\ ~Truthy(checked_column(live, data, k))
        THEN Get(enr, k) ELSE live[k]]

\* the columns an update changed, as entries of writes
changes(t, old, new) ==
    [k \in EnrichedColumns |->
        IF old[k] = new[k] THEN <<>> ELSE <<[task |-> t, old |-> old[k], new |-> new[k]]>>]

InitWriters ==
    /\ shared \in CompanyRows
    /\ writers \in {[t \in 1..n |-> [pc |-> "ready", data |-> <<>>, enr |-> <<>>,
                                       commit |-> "none"]] : n \in 1..MaxTasks}
    /\ writes = [k \in EnrichedColumns |-> <<>>]
    /\ NoTasks /\ NoBatch
    /\ NoDiscover /\ NoEnrich /\ NoCompany /\ NoExtract /\ NoRetry

WritersFrame ==
    UNCHANGED <<dvars, evars, cvars, xvars, rvars, tasks, running, gathered, bvars>>

\* _process_policy, lines 298-306: the task builds the dict from the Company object
\* and awaits enrich_company
WriterEnrich(t) ==
    /\ writers[t].pc = "ready"
    /\ writers' = [writers EXCEPT ![t].pc = "enriching", ![t].data = pipeline_record(shared)]
    /\ UNCHANGED <<shared, writes>> /\ WritersFrame

\* _process_policy, lines 306-307, and _update_company_enrichment, lines 397-421: the
\* await is over and the task updates the Company object; session.commit() succeeds,
\* or raises and the except clause rolls the object back
WriterUpdate(t) ==
    /\ writers[t].pc = "enriching"
    /\ \E enr \in EnrichedFor(writers[t].data) : \E commit \in CommitOutcomes :
         /\ shared' = IF commit = "raises" THEN shared
                      ELSE task_update(shared, writers[t].data, enr)
         /\ writers' = [writers EXCEPT ![t].pc = "done", ![t].enr = enr,
                                        ![t].commit = commit]
         /\ writes' = [k \in EnrichedColumns |->
                          writes[k] \o changes(t, shared, shared')[k]]
    /\ WritersFrame

EnrichTask == \E t \in DOMAIN writers : WriterEnrich(t)
UpdateTask == \E t \in DOMAIN writers : WriterUpdate(t)

NextWriters ==
    \/ EnrichTask
    \/ UpdateTask

SpecWriters == InitWriters /\ [][NextWriters]_vars

\* C27: in every interleaving of the policy tasks of a company, a column of the company
\* is changed by at most one update; that update found the column empty, set it to a
\* non-empty value, and the column holds that value ever after.
C27_FieldWrittenAtMostOnce ==
    \A k \in DOMAIN writes :
        /\ Len(writes[k]) <= 1
        /\ writes[k] # <<>> =>
              /\ ~Truthy(writes[k][1].old)
              /\ Truthy(writes[k][1].new)
              /\ shared[k] = writes[k][1].new

\* two tasks read an empty email column before either updated it and found different
\* addresses; the second task updated first, and the update of the first task, whose
\* commit succeeded, left the column as it was
C27_Witness ==
    /\ Len(writers) = 2
    /\ \A t \in {1, 2} : writers[t].pc = "done" /\ writers[t].commit = "committed"
                          /\ ~Truthy(writers[t].data["email"])
                          /\ Truthy(writers[t].enr["email"])
    /\ writers[1].enr["email"] # writers[2].enr["email"]
    /\ Len(writes["email"]) = 1
    /\ writes["email"][1].task = 2
    /\ shared["email"] = writers[2].enr["email"]

-----------------------------------------------------------------------------
(* Further properties of enrich_X                                          *)

\* C23: when the current value is present and passes the validator of the field, the
\* value of the result the call returns is the current value, character for character.
C23_ShortCircuitValueIsCurrent ==
    (epc = "done" /\ ~current.none /\ current.value # <<>>
        /\ is_valid(field, current.value)) =>
        result # NoResult /\ result.value = current.value

\* C28: when the call returns a result and the pattern extraction found a candidate,
\* the confidence of the result is at least that of the best candidate.
C28_ResultNotBelowBestPattern ==
    (epc = "done" /\ ~eraised /\ result # NoResult /\ results # <<>>) =>
        FGe(result.confidence, results[1].confidence)

\* the best candidate was below the threshold, the oracle answered, and the call
\* returned the answer of the oracle
C28_Witness ==
    /\ epc = "done" /\ ~eraised
    /\ results # <<>>
    /\ llmCalls = 1
    /\ result # NoResult
    /\ result.source = "llm"
    /\ FGt(result.confidence, results[1].confidence)

-----------------------------------------------------------------------------
(* Further properties of retry                                             *)

RECURSIVE Power(_, _)
Power(b, n) == IF n = 0 THEN 1 ELSE b * Power(b, n - 1)

\* C25: the k-th sleep of wrapper lasts delay * backoff^(k-1); wrapper has slept once
\* after each failed attempt but the last one of max_attempts, and not after that one.
C25_SleepsFollowBackoff ==
    /\ \A k \in DOMAIN slept : slept[k] = delay * Power(backoff, k - 1)
    /\ rpc = "loop" => Len(slept) = call.attempt
    /\ rpc = "sleeping" => Len(slept) = call.attempt - 1 /\ call.attempt < max_attempts
    /\ rpc = "done" /\ ended.kind = "raised" => Len(slept) = max_attempts - 1
    /\ rpc = "done" /\ ended.kind = "returned" => Len(slept) = Len(invoked) - 1

\* three attempts failed with delay 1 and backoff 2: wrapper slept 1 s, then 2 s, and
\* raised without a third sleep
C25_Witness ==
    /\ rpc = "done" /\ ended.kind = "raised"
    /\ max_attempts = 3 /\ delay = 1 /\ backoff = 2
    /\ slept = <<1, 2>>

-----------------------------------------------------------------------------
(* Further properties of discover                                          *)

\* C22: a call of discover in whose last invocation a strategy met a failure has been
\* attempted discover_max_attempts times and has raised: a failure is never followed
\* by a return without a further attempt.
C22_FailureIsRetried ==
    (pc = "done" /\ raisedIn # {}) =>
        outcome = "raised" /\ invocations = discover_max_attempts

\* C24: in the sitemap strategy the fetches made never exceed 1 (robots.txt) plus the
\* sitemap urls of the list plus the children the fetched indexes listed, and what is
\* left of that bound is exactly the sitemap urls and the children still to fetch: no
\* <loc> of a child is ever fetched.
C24_SitemapOneLevelDeep ==
    pc = "sitemap" =>
        /\ allowance >= 0
        /\ allowance = Len(todo) + kids

\* a child of the last index of the list was itself an index that lists a sitemap,
\* and the strategy came to its end without fetching it
C24_Witness ==
    /\ pc = "sitemap" /\ todo = <<>> /\ kids = 0
    /\ nested > 0
    /\ allowance = 0

-----------------------------------------------------------------------------
(* Further properties of the extractors                                    *)

\* C29: the confidence extract_delete_links returns for a url is not below the
\* confidence of any pattern that matched that url in the text: a url a lower
\* pattern matched first is not kept at the lower confidence.
C29_HighestTierKept ==
    HasReturned("extract_delete_links") =>
        \A i \in 1..Len(xout) : \A j \in 1..Len(xinput.arg) :
            delete_link_url(xinput.arg[j].url) = xout[i].value =>
                FGe(xout[i].confidence, tier_confidence(xinput.arg[j], xout[i].value))

\* C26: a result of extract_countries that comes from the scan for two-letter codes
\* (confidence 0.80) is a valid country code that a word of the text spells in upper
\* case: a word written in lower case produces no result.
C26_BareCodeIsUpperCaseInText ==
    HasReturned("extract_countries") =>
        \A i \in 1..Len(xout) :
            xout[i].confidence = F(CountryCodeConfidence) =>
                /\ is_valid_country_code(xout[i].value)
                /\ \E j \in 1..Len(xinput.arg.words) : xinput.arg.words[j] = xout[i].value

\* C30: a match that is a plain address (its lower-cased text is a valid address) is
\* returned by extract_emails as that lower-cased text, whatever letters it holds.
C30_PlainAddressKept ==
    HasReturned("extract_emails") =>
        \A j \in 1..Len(xinput.arg) :
            is_valid_email(Lower(xinput.arg[j].text)) =>
                \E i \in 1..Len(xout) : xout[i].value = Lower(xinput.arg[j].text)

====
